---- MODULE Spec2Model ----
(***************************************************************************)
(* Analytics aggregation engine of MediaScope (src/firestore_db.py):       *)
(* entity-name normalization, the entity filter and the full-scan          *)
(* aggregations over the 'articles' collection.                            *)
(*                                                                         *)
(* Python strings are modelled as sequences of one-character strings so    *)
(* that lower(), title(), endswith(), slicing, isdigit() and the           *)
(* code-point comparison of strings are computed, not assumed.             *)
(***************************************************************************)
EXTENDS Integers, Sequences, FiniteSets, TLC

VARIABLES
    articles,   \* documents of the Firestore collection 'articles', in stream order
    call,       \* the operation invoked last, with its arguments
    result,     \* the value that operation returned
    clock,      \* time.time(), in seconds
    instances,  \* the FirestoreDB objects constructed so far, with their caches
    _db_instance,           \* firestore_db._db_instance: 0 for None, else an index of instances
    _apps,                  \* firebase_admin._apps holds the default app
    threads,                \* the calls in progress in the worker threads
    pipeline,               \* mediascope_api.pipeline
    PIPELINE_AVAILABLE      \* mediascope_api.PIPELINE_AVAILABLE

\* the state of the process besides the corpus and the last call
process == <<clock, instances, _db_instance, _apps, threads, pipeline, PIPELINE_AVAILABLE>>

vars == <<articles, call, result, process>>

----------------------------------------------------------------------------
(* Bounds of the model *)

MaxStemLen == 2      \* length of the generated word stems fed to the normalizer
MaxChain == 1        \* how many times the normalizer is re-applied to its output
MaxArticles == 2     \* documents in the 'articles' collection
MaxMentions == 3     \* entity mentions in the whole collection (an empty article counts as one)
MaxLimit == 2        \* largest `limit` argument of an aggregation
MaxMinCount == 2     \* largest `min_count` argument of get_entity_cooccurrence
MaxTopics == 31      \* distinct topic labels in the collection
MaxShare == 3        \* articles of one topic, in the collections of few topics
MaxTicks == 4        \* how many times the clock advances
MaxCalls == 3        \* calls of a cached aggregation in one behaviour
MaxThreads == 2      \* requests served at the same time
MaxNames == 2        \* length of the `entity_names` argument of compare_entities

----------------------------------------------------------------------------
(* Characters and Python str operations *)

UpperCase == <<"A","B","C","D","E","F","G","H","I","J","K","L","M",
               "N","O","P","Q","R","S","T","U","V","W","X","Y","Z">>
LowerCase == <<"a","b","c","d","e","f","g","h","i","j","k","l","m",
               "n","o","p","q","r","s","t","u","v","w","x","y","z">>
DigitChars == {"0","1","2","3","4","5","6","7","8","9"}

\* the characters of the model in increasing code-point order
CodeOrder == <<" ", "'", "-", "0","1","2","3","4","5","6","7","8","9", ":">>
             \o UpperCase \o LowerCase

Ord(c) == CHOOSE i \in 1..Len(CodeOrder) : CodeOrder[i] = c

IsUpper(c) == \E i \in 1..26 : UpperCase[i] = c
IsLower(c) == \E i \in 1..26 : LowerCase[i] = c
IsCased(c) == IsUpper(c) \/ IsLower(c)

LowerChar(c) == IF IsUpper(c) THEN LowerCase[CHOOSE i \in 1..26 : UpperCase[i] = c] ELSE c
UpperChar(c) == IF IsLower(c) THEN UpperCase[CHOOSE i \in 1..26 : LowerCase[i] = c] ELSE c

\* str.lower()
lower(s) == [i \in 1..Len(s) |-> LowerChar(s[i])]

\* str.title(): a cased character is upper-cased when the character before
\* it is not cased (or there is none) and lower-cased otherwise
title(s) == [i \in 1..Len(s) |->
               IF i > 1 /\ IsCased(s[i-1]) THEN LowerChar(s[i]) ELSE UpperChar(s[i])]

\* str.endswith(suffix)
endswith(s, suffix) ==
    /\ Len(s) >= Len(suffix)
    /\ SubSeq(s, Len(s) - Len(suffix) + 1, Len(s)) = suffix

\* s[:-n] for n > 0
DropLast(s, n) == IF Len(s) <= n THEN <<>> ELSE SubSeq(s, 1, Len(s) - n)

\* str.isdigit()
isdigit(s) == Len(s) > 0 /\ \A i \in 1..Len(s) : s[i] \in DigitChars

\* s < t on Python strings: lexicographic by code point
StrLess(s, t) ==
    LET n == IF Len(s) < Len(t) THEN Len(s) ELSE Len(t)
        diff == {i \in 1..n : s[i] # t[i]}
    IN  IF diff = {} THEN Len(s) < Len(t)
        ELSE LET i == CHOOSE j \in diff : \A k \in diff : j <= k
             IN  Ord(s[i]) < Ord(t[i])

----------------------------------------------------------------------------
(* FirestoreDB._normalize_entity_name *)

PakistanVariants ==
       (<<"p","a","k","i","s","t">> :> <<"p","a","k","i","s","t","a","n">>)
    @@ (<<"p","a","k","i","s","t","a","n","i">> :> <<"p","a","k","i","s","t","a","n">>)
    @@ (<<"p","a","k","i","s","t","a","n","i","s">> :> <<"p","a","k","i","s","t","a","n">>)
    @@ (<<"p","a","k","i">> :> <<"p","a","k","i","s","t","a","n">>)
    @@ (<<"p","a","k","i","s">> :> <<"p","a","k","i","s","t","a","n">>)
    @@ (<<"p","a","k","i","s","t","a","n">> :> <<"p","a","k","i","s","t","a","n">>)

IndiaVariants ==
       (<<"i","n","d","i","a","n">> :> <<"i","n","d","i","a">>)
    @@ (<<"i","n","d","i","a","n","s">> :> <<"i","n","d","i","a">>)
    @@ (<<"i","n","d","i","a">> :> <<"i","n","d","i","a">>)

PalestineVariants ==
       (<<"p","a","l","e","s","t","i","n">> :> <<"p","a","l","e","s","t","i","n","e">>)
    @@ (<<"p","a","l","e","s","t","i","n","e">> :> <<"p","a","l","e","s","t","i","n","e">>)
    @@ (<<"p","a","l","e","s","t","i","n","i","a","n">> :> <<"p","a","l","e","s","t","i","n","e">>)
    @@ (<<"p","a","l","e","s","t","i","n","i","a","n","s">> :> <<"p","a","l","e","s","t","i","n","e">>)
    @@ (<<"p","l","o">> :> <<"p","a","l","e","s","t","i","n","e">>)

SyriaVariants ==
       (<<"s","y","r">> :> <<"s","y","r","i","a">>)
    @@ (<<"s","y","r","i","a">> :> <<"s","y","r","i","a">>)
    @@ (<<"s","y","r","i","a","n">> :> <<"s","y","r","i","a">>)
    @@ (<<"s","y","r","i","a","n","s">> :> <<"s","y","r","i","a">>)

LebanonVariants ==
       (<<"l","e","b","a","n","o","n">> :> <<"l","e","b","a","n","o","n">>)
    @@ (<<"l","e","b","a","n","e","s","e">> :> <<"l","e","b","a","n","o","n">>)

EgyptVariants ==
       (<<"e","g","y","p","t">> :> <<"e","g","y","p","t">>)
    @@ (<<"e","g","y","p","t","i","a","n">> :> <<"e","g","y","p","t">>)
    @@ (<<"e","g","y","p","t","i","a","n","s">> :> <<"e","g","y","p","t">>)

AmericaVariants ==
       (<<"a","m","e","r","i","c","a","n">> :> <<"a","m","e","r","i","c","a">>)
    @@ (<<"a","m","e","r","i","c","a","n","s">> :> <<"a","m","e","r","i","c","a">>)
    @@ (<<"a","m","e","r","i","c","a">> :> <<"a","m","e","r","i","c","a">>)
    @@ (<<"u","s">> :> <<"a","m","e","r","i","c","a">>)
    @@ (<<"u","s","a">> :> <<"a","m","e","r","i","c","a">>)

BritainVariants ==
       (<<"b","r","i","t","i","s","h">> :> <<"b","r","i","t","a","i","n">>)
    @@ (<<"b","r","i","t","a","i","n">> :> <<"b","r","i","t","a","i","n">>)
    @@ (<<"u","k">> :> <<"b","r","i","t","a","i","n">>)

PakistanCities ==
       (<<"k","a","r","a","c","h","i">> :> <<"k","a","r","a","c","h","i">>)
    @@ (<<"k","a","r","a","c","h","i","i","t","e","s">> :> <<"k","a","r","a","c","h","i">>)
    @@ (<<"l","a","h","o","r","e">> :> <<"l","a","h","o","r","e">>)
    @@ (<<"l","a","h","o","r","i">> :> <<"l","a","h","o","r","e">>)
    @@ (<<"l","a","h","o","r","i","s">> :> <<"l","a","h","o","r","e">>)
    @@ (<<"i","s","l","a","m","a","b","a","d">> :> <<"i","s","l","a","m","a","b","a","d">>)

MiddleEast ==
       (<<"a","r","a","b">> :> <<"a","r","a","b">>)
    @@ (<<"a","r","a","b","s">> :> <<"a","r","a","b">>)
    @@ (<<"s","a","u","d","i">> :> <<"s","a","u","d","i"," ","a","r","a","b","i","a">>)
    @@ (<<"s","a","u","d","i","s">> :> <<"s","a","u","d","i"," ","a","r","a","b","i","a">>)
    @@ (<<"s","a","u","d","i"," ","a","r","a","b","i","a">> :> <<"s","a","u","d","i"," ","a","r","a","b","i","a">>)
    @@ (<<"j","o","r","d","a","n">> :> <<"j","o","r","d","a","n">>)
    @@ (<<"j","o","r","d","a","n","i","a","n">> :> <<"j","o","r","d","a","n">>)
    @@ (<<"j","o","r","d","a","n","i","a","n","s">> :> <<"j","o","r","d","a","n">>)
    @@ (<<"k","u","w","a","i","t">> :> <<"k","u","w","a","i","t">>)
    @@ (<<"k","u","w","a","i","t","i">> :> <<"k","u","w","a","i","t">>)
    @@ (<<"k","u","w","a","i","t","i","s">> :> <<"k","u","w","a","i","t">>)

OtherCountries ==
       (<<"s","o","v","i","e","t">> :> <<"u","s","s","r">>)
    @@ (<<"s","o","v","i","e","t","s">> :> <<"u","s","s","r">>)
    @@ (<<"u","s","s","r">> :> <<"u","s","s","r">>)
    @@ (<<"r","u","s","s","i","a">> :> <<"r","u","s","s","i","a">>)
    @@ (<<"r","u","s","s","i","a","n">> :> <<"r","u","s","s","i","a">>)
    @@ (<<"r","u","s","s","i","a","n","s">> :> <<"r","u","s","s","i","a">>)
    @@ (<<"i","r","a","q">> :> <<"i","r","a","q">>)
    @@ (<<"i","r","a","q","i">> :> <<"i","r","a","q">>)
    @@ (<<"i","r","a","q","i","s">> :> <<"i","r","a","q">>)
    @@ (<<"i","r","a","n">> :> <<"i","r","a","n">>)
    @@ (<<"i","r","a","n","i","a","n">> :> <<"i","r","a","n">>)
    @@ (<<"i","r","a","n","i","a","n","s">> :> <<"i","r","a","n">>)
    @@ (<<"i","s","r","a","e","l">> :> <<"i","s","r","a","e","l">>)
    @@ (<<"i","s","r","a","e","l","i">> :> <<"i","s","r","a","e","l">>)
    @@ (<<"i","s","r","a","e","l","i","s">> :> <<"i","s","r","a","e","l">>)
    @@ (<<"c","h","i","n","a">> :> <<"c","h","i","n","a">>)
    @@ (<<"c","h","i","n","e","s","e">> :> <<"c","h","i","n","a">>)
    @@ (<<"j","a","p","a","n">> :> <<"j","a","p","a","n">>)
    @@ (<<"j","a","p","a","n","e","s","e">> :> <<"j","a","p","a","n">>)
    @@ (<<"a","f","g","h","a","n","i","s","t","a","n">> :> <<"a","f","g","h","a","n","i","s","t","a","n">>)
    @@ (<<"a","f","g","h","a","n">> :> <<"a","f","g","h","a","n","i","s","t","a","n">>)
    @@ (<<"a","f","g","h","a","n","s">> :> <<"a","f","g","h","a","n","i","s","t","a","n">>)

\* a table entry that maps a variant to another variant instead of the root
normalization_map_slip ==
    (<<"s","o","v","i","e","t">> :> <<"s","o","v","i","e","t","s">>) @@
    PakistanVariants @@ IndiaVariants @@ PalestineVariants @@ SyriaVariants @@ LebanonVariants
    @@ EgyptVariants @@ AmericaVariants @@ BritainVariants @@ PakistanCities @@ MiddleEast @@ OtherCountries

normalization_map ==
    PakistanVariants @@ IndiaVariants @@ PalestineVariants @@ SyriaVariants @@ LebanonVariants
    @@ EgyptVariants @@ AmericaVariants @@ BritainVariants @@ PakistanCities @@ MiddleEast @@ OtherCountries

\* the keys of the table
normalization_keys == DOMAIN normalization_map

\* the table is looked up with the text as extracted, not with its lowercase form
_normalize_entity_name_case_sensitive(entity_text) ==
    LET entity_lower == lower(entity_text) IN
    IF entity_text \in normalization_keys
    THEN title(normalization_map[entity_text])
    ELSE IF endswith(entity_lower, <<"a","n","s">>) /\ Len(entity_lower) > 5
    THEN LET base == DropLast(entity_lower, 3) IN
         IF base \notin normalization_keys THEN title(base) ELSE entity_text
    ELSE IF endswith(entity_lower, <<"e","s","e">>) /\ Len(entity_lower) > 6
    THEN LET base == DropLast(entity_lower, 3) IN
         title(IF endswith(base, <<"i","n">>) THEN DropLast(base, 2) \o <<"a">> ELSE base)
    ELSE IF endswith(entity_lower, <<"i","s">>) /\ Len(entity_lower) > 5
    THEN title(DropLast(entity_lower, 2))
    ELSE entity_text

\* the length thresholds of the suffix rules are off by one (>= instead of >)
_normalize_entity_name_short_words(entity_text) ==
    LET entity_lower == lower(entity_text) IN
    IF entity_lower \in normalization_keys
    THEN title(normalization_map[entity_lower])
    ELSE IF endswith(entity_lower, <<"a","n","s">>) /\ Len(entity_lower) >= 5
    THEN LET base == DropLast(entity_lower, 3) IN
         IF base \notin normalization_keys THEN title(base) ELSE entity_text
    ELSE IF endswith(entity_lower, <<"e","s","e">>) /\ Len(entity_lower) >= 6
    THEN LET base == DropLast(entity_lower, 3) IN
         title(IF endswith(base, <<"i","n">>) THEN DropLast(base, 2) \o <<"a">> ELSE base)
    ELSE IF endswith(entity_lower, <<"i","s">>) /\ Len(entity_lower) >= 5
    THEN title(DropLast(entity_lower, 2))
    ELSE entity_text

_normalize_entity_name(entity_text) ==
    LET entity_lower == lower(entity_text) IN
    IF entity_lower \in normalization_keys
    THEN title(normalization_map[entity_lower])
    ELSE IF endswith(entity_lower, <<"a","n","s">>) /\ Len(entity_lower) > 5
    THEN LET base == DropLast(entity_lower, 3) IN
         IF base \notin normalization_keys THEN title(base) ELSE entity_text
    ELSE IF endswith(entity_lower, <<"e","s","e">>) /\ Len(entity_lower) > 6
    THEN LET base == DropLast(entity_lower, 3) IN
         title(IF endswith(base, <<"i","n">>) THEN DropLast(base, 2) \o <<"a">> ELSE base)
    ELSE IF endswith(entity_lower, <<"i","s">>) /\ Len(entity_lower) > 5
    THEN title(DropLast(entity_lower, 2))
    ELSE entity_text

----------------------------------------------------------------------------
(* Python helpers of the aggregations *)

Min2(a, b) == IF a < b THEN a ELSE b
Max2(a, b) == IF a > b THEN a ELSE b

\* seq[:n]
SliceTo(seq, n) ==
    IF n >= 0 THEN SubSeq(seq, 1, Min2(n, Len(seq)))
    ELSE SubSeq(seq, 1, Max2(Len(seq) + n, 0))

\* sorted(seq, key=..., reverse=True): descending by key, records with equal
\* keys stay in their original order; key[i] is the key of seq[i]
SortedDescending(seq, key) ==
    LET before(i) == {j \in DOMAIN seq : key[j] > key[i] \/ (key[j] = key[i] /\ j < i)}
    IN  [p \in DOMAIN seq |-> seq[CHOOSE i \in DOMAIN seq : Cardinality(before(i)) = p - 1]]

RECURSIVE Concat(_)
Concat(seqs) == IF seqs = <<>> THEN <<>> ELSE Head(seqs) \o Concat(Tail(seqs))

RECURSIVE SumSeq(_)
SumSeq(seq) == IF seq = <<>> THEN 0 ELSE Head(seq) + SumSeq(Tail(seq))

\* the last `width` decimal digits of n, zero-padded
RECURSIVE Digits(_, _)
Digits(n, width) ==
    IF width = 0 THEN <<>>
    ELSE Digits(n \div 10, width - 1) \o <<CodeOrder[4 + (n % 10)]>>

\* datetime.strftime('%Y-%m-%d')
strftime(d) == Digits(d.year, 4) \o <<"-">> \o Digits(d.month, 2) \o <<"-">> \o Digits(d.day, 2)

\* FirestoreDB._normalize_date; None is the empty sequence
_normalize_date(date_value) ==
    IF date_value.kind = "datetime" THEN strftime(date_value)
    ELSE IF date_value.kind = "str" /\ date_value.value # <<>> THEN date_value.value
    ELSE <<>>

\* s <= t and s >= t are never used by the code; s < t and s > t are
StrGreater(s, t) == StrLess(t, s)

----------------------------------------------------------------------------
(* The entity filter, written inline in each aggregation that applies it *)

NoiseTypes == {"DATE", "TIME", "CARDINAL", "ORDINAL", "QUANTITY", "MONEY", "PERCENT"}

\* the `entity_type` argument when no type filter is asked for (None)
NoType == "None"

\* the mention survives the three `continue` statements
EntityFilter(entity, entity_type) ==
    /\ entity.type \notin NoiseTypes
    /\ ~(Len(entity.text) < 3 \/ isdigit(entity.text))
    /\ ~(entity_type # NoType /\ entity.type # entity_type)

\* the surviving mentions of one article, normalized, in extraction order
FilteredNormalized(doc, entity_type) ==
    LET kept == SelectSeq(doc.entities, LAMBDA e : EntityFilter(e, entity_type))
    IN  [i \in DOMAIN kept |-> [text |-> _normalize_entity_name(kept[i].text),
                                type |-> kept[i].type]]

----------------------------------------------------------------------------
(* FirestoreDB.get_top_entities *)

\* the article passes the date range of get_top_entities
TopEntitiesInRange(doc, start_date, end_date) ==
    IF start_date # <<>> \/ end_date # <<>>
    THEN LET pub_date == _normalize_date(doc.publication_date) IN
         /\ ~(start_date # <<>> /\ pub_date # <<>> /\ StrLess(pub_date, start_date))
         /\ ~(end_date # <<>> /\ pub_date # <<>> /\ StrGreater(pub_date, end_date))
    ELSE TRUE

\* entity_counts: one record per (text, type) key, in first-seen order
RECURSIVE CountEntities(_, _)
CountEntities(mentions, entity_counts) ==
    IF mentions = <<>> THEN entity_counts
    ELSE LET m == Head(mentions)
             at == {i \in DOMAIN entity_counts :
                      entity_counts[i].text = m.text /\ entity_counts[i].type = m.type}
         IN  CountEntities(Tail(mentions),
                 IF at = {}
                 THEN Append(entity_counts, [text |-> m.text, type |-> m.type, count |-> 1])
                 ELSE [entity_counts EXCEPT ![CHOOSE i \in at : TRUE].count = @ + 1])

\* sorted() without reverse=True: ascending by count
get_top_entities_ascending(docs, entity_type, limit, start_date, end_date) ==
    LET scanned == SelectSeq(docs, LAMBDA d : TopEntitiesInRange(d, start_date, end_date))
        mentions == Concat([i \in DOMAIN scanned |-> FilteredNormalized(scanned[i], entity_type)])
        entity_counts == CountEntities(mentions, <<>>)
        sorted_entities == SortedDescending(entity_counts,
                               [i \in DOMAIN entity_counts |-> 0 - entity_counts[i].count])
    IN  SliceTo(sorted_entities, limit)

get_top_entities(docs, entity_type, limit, start_date, end_date) ==
    LET scanned == SelectSeq(docs, LAMBDA d : TopEntitiesInRange(d, start_date, end_date))
        mentions == Concat([i \in DOMAIN scanned |-> FilteredNormalized(scanned[i], entity_type)])
        entity_counts == CountEntities(mentions, <<>>)
        sorted_entities == SortedDescending(entity_counts,
                               [i \in DOMAIN entity_counts |-> entity_counts[i].count])
    IN  SliceTo(sorted_entities, limit)

----------------------------------------------------------------------------
(* FirestoreDB.get_sentiment_by_entity *)

\* entity_sentiment: one record per normalized text, in first-seen order; the
\* counters of the article's sentiment label, article_count and the list of
\* scores grow once for every surviving mention
RECURSIVE AccumulateSentiment(_, _)
AccumulateSentiment(mentions, entity_sentiment) ==
    IF mentions = <<>> THEN entity_sentiment
    ELSE LET m == Head(mentions)
             at == {i \in DOMAIN entity_sentiment : entity_sentiment[i].entity_text = m.text}
             fresh == [entity_text |-> m.text, entity_type |-> m.type,
                       positive_count |-> 0, neutral_count |-> 0, negative_count |-> 0,
                       article_count |-> 0, sentiment_scores |-> <<>>]
             table == IF at = {} THEN Append(entity_sentiment, fresh) ELSE entity_sentiment
             k == CHOOSE i \in DOMAIN table : table[i].entity_text = m.text
             bumped == [table[k] EXCEPT
                          !.positive_count = @ + (IF m.sentiment = "positive" THEN 1 ELSE 0),
                          !.neutral_count = @ + (IF m.sentiment = "neutral" THEN 1 ELSE 0),
                          !.negative_count = @ + (IF m.sentiment = "negative" THEN 1 ELSE 0),
                          !.article_count = @ + 1,
                          !.sentiment_scores = Append(@, m.sentiment_score)]
         IN  AccumulateSentiment(Tail(mentions), [table EXCEPT ![k] = bumped])

\* avg_sentiment = sum(scores) / len(scores), kept as the exact fraction
\* <<numerator, denominator>> of thousandths; 0.0 when there are no scores
Average(scores) == IF scores = <<>> THEN <<0, 1>> ELSE <<SumSeq(scores), Len(scores)>>

get_sentiment_by_entity(docs, entity_type, limit) ==
    LET tagged(doc) ==
            LET kept == FilteredNormalized(doc, entity_type)
            IN  [i \in DOMAIN kept |-> [text |-> kept[i].text, type |-> kept[i].type,
                                        sentiment |-> doc.sentiment_label,
                                        sentiment_score |-> doc.sentiment_score]]
        mentions == Concat([i \in DOMAIN docs |-> tagged(docs[i])])
        entity_sentiment == AccumulateSentiment(mentions, <<>>)
        averaged == [i \in DOMAIN entity_sentiment |->
                        [entity_text |-> entity_sentiment[i].entity_text,
                         entity_type |-> entity_sentiment[i].entity_type,
                         positive_count |-> entity_sentiment[i].positive_count,
                         neutral_count |-> entity_sentiment[i].neutral_count,
                         negative_count |-> entity_sentiment[i].negative_count,
                         article_count |-> entity_sentiment[i].article_count,
                         avg_sentiment |-> Average(entity_sentiment[i].sentiment_scores)]]
        sorted_entities == SortedDescending(averaged,
                               [i \in DOMAIN averaged |-> averaged[i].article_count])
        filtered_entities == SelectSeq(sorted_entities, LAMBDA e : e.article_count >= 2)
    IN  SliceTo(filtered_entities, limit)

----------------------------------------------------------------------------
(* FirestoreDB.get_entity_cooccurrence *)

\* itertools.combinations(filtered_entities, 2), with the pairs of equal text
\* skipped and each remaining pair keyed with the smaller text first
\* the pair is keyed in the order the two mentions are met in the article
RECURSIVE PairsFrom_encounter_order(_, _, _)
PairsFrom_encounter_order(filtered_entities, i, j) ==
    IF i >= Len(filtered_entities) THEN <<>>
    ELSE IF j > Len(filtered_entities)
    THEN PairsFrom_encounter_order(filtered_entities, i + 1, i + 2)
    ELSE LET e1 == filtered_entities[i]
             e2 == filtered_entities[j]
             pair == <<e1.text, e1.type, e2.text, e2.type>>
         IN  (IF e1.text = e2.text THEN <<>> ELSE <<pair>>)
             \o PairsFrom_encounter_order(filtered_entities, i, j + 1)

RECURSIVE PairsFrom(_, _, _)
PairsFrom(filtered_entities, i, j) ==
    IF i >= Len(filtered_entities) THEN <<>>
    ELSE IF j > Len(filtered_entities) THEN PairsFrom(filtered_entities, i + 1, i + 2)
    ELSE LET e1 == filtered_entities[i]
             e2 == filtered_entities[j]
             pair == IF StrLess(e1.text, e2.text)
                     THEN <<e1.text, e1.type, e2.text, e2.type>>
                     ELSE <<e2.text, e2.type, e1.text, e1.type>>
         IN  (IF e1.text = e2.text THEN <<>> ELSE <<pair>>)
             \o PairsFrom(filtered_entities, i, j + 1)

\* pair_counts: one entry per pair key, in first-seen order
RECURSIVE CountPairs(_, _)
CountPairs(pairs, pair_counts) ==
    IF pairs = <<>> THEN pair_counts
    ELSE LET at == {i \in DOMAIN pair_counts : pair_counts[i].pair = Head(pairs)}
         IN  CountPairs(Tail(pairs),
                 IF at = {}
                 THEN Append(pair_counts, [pair |-> Head(pairs), count |-> 1])
                 ELSE [pair_counts EXCEPT ![CHOOSE i \in at : TRUE].count = @ + 1])

get_entity_cooccurrence(docs, entity_type, min_count, limit) ==
    LET pairs == Concat([i \in DOMAIN docs |->
                            PairsFrom(FilteredNormalized(docs[i], entity_type), 1, 2)])
        pair_counts == CountPairs(pairs, <<>>)
        kept == SelectSeq(pair_counts, LAMBDA p : p.count >= min_count)
        results == [i \in DOMAIN kept |->
                       [entity1 |-> kept[i].pair[1], type1 |-> kept[i].pair[2],
                        entity2 |-> kept[i].pair[3], type2 |-> kept[i].pair[4],
                        cooccurrence_count |-> kept[i].count]]
        sorted_results == SortedDescending(results,
                              [i \in DOMAIN results |-> results[i].cooccurrence_count])
    IN  SliceTo(sorted_results, limit)

----------------------------------------------------------------------------
(* FirestoreDB.compare_entities *)

\* a dict of counters grown by `d[key] += 1`: one record per key, first-seen order
RECURSIVE CountInOrder(_, _)
CountInOrder(keys, counts) ==
    IF keys = <<>> THEN counts
    ELSE LET at == {i \in DOMAIN counts : counts[i].key = Head(keys)}
         IN  CountInOrder(Tail(keys),
                 IF at = {}
                 THEN Append(counts, [key |-> Head(keys), count |-> 1])
                 ELSE [counts EXCEPT ![CHOOSE i \in at : TRUE].count = @ + 1])

\* sorted(d.items(), key=lambda x: x[1], reverse=True)[:n]
TopItems(counts, n) ==
    SliceTo(SortedDescending(counts, [i \in DOMAIN counts |-> counts[i].count]), n)

\* the keys of a dict built from a list: duplicates collapse, first position kept
DictKeys(names) ==
    SelectSeq([i \in DOMAIN names |-> [name |-> names[i], first |-> \A j \in 1..(i-1) : names[j] # names[i]]],
              LAMBDA x : x.first)

\* the article is scanned by the aggregations that require a publication date
DatedInRange(doc, start_date, end_date) ==
    LET pub_date == _normalize_date(doc.publication_date) IN
    /\ doc.publication_date.kind # "none"
    /\ pub_date # <<>>
    /\ ~(start_date # <<>> /\ StrLess(pub_date, start_date))
    /\ ~(end_date # <<>> /\ StrGreater(pub_date, end_date))

\* the co-occurrence increments of one article, in loop order: <<a, b>> stands
\* for entity_data[a]['cooccurrences'][b] += 1
RECURSIVE CooccurrenceSteps(_, _, _)
CooccurrenceSteps(found_entities, i, j) ==
    IF i >= Len(found_entities) THEN <<>>
    ELSE IF j > Len(found_entities) THEN CooccurrenceSteps(found_entities, i + 1, i + 2)
    ELSE <<  <<found_entities[i], found_entities[j]>>, <<found_entities[j], found_entities[i]>>  >>
         \o CooccurrenceSteps(found_entities, i, j + 1)

compare_entities(docs, entity_names, start_date, end_date) ==
    LET names == DictKeys(entity_names)
        \* normalized_entities: normalized lowercase name -> requested name; a
        \* later name with the same normalized form replaces an earlier one
        keys == [i \in DOMAIN entity_names |-> lower(_normalize_entity_name(entity_names[i]))]
        normalized_entities(k) ==
            entity_names[CHOOSE i \in DOMAIN keys :
                            keys[i] = k /\ \A j \in DOMAIN keys : keys[j] = k => j <= i]
        scanned == SelectSeq(docs, LAMBDA d : DatedInRange(d, start_date, end_date))
        found_entities(doc) ==
            LET normalized == [i \in DOMAIN doc.entities |->
                                  lower(_normalize_entity_name(doc.entities[i].text))]
                hits == SelectSeq(normalized, LAMBDA k : \E i \in DOMAIN keys : keys[i] = k)
            IN  [i \in DOMAIN hits |-> normalized_entities(hits[i])]
        \* one record per increment of total_mentions, in scan order
        hitsOf(doc) ==
            LET f == found_entities(doc)
            IN  [i \in DOMAIN f |-> [name |-> f[i], sentiment |-> doc.sentiment_label,
                                     topic |-> doc.topic_label]]
        allHits == Concat([i \in DOMAIN scanned |-> hitsOf(scanned[i])])
        steps == Concat([i \in DOMAIN scanned |->
                            CooccurrenceSteps(found_entities(scanned[i]), 1, 2)])
        entry(name) ==
            LET mine == SelectSeq(allHits, LAMBDA h : h.name = name)
                total == Len(mine)
                positive == Len(SelectSeq(mine, LAMBDA h : h.sentiment = "positive"))
                negative == Len(SelectSeq(mine, LAMBDA h : h.sentiment = "negative"))
                neutral == Len(SelectSeq(mine, LAMBDA h : h.sentiment = "neutral"))
                topics == CountInOrder([i \in DOMAIN mine |-> mine[i].topic], <<>>)
                mySteps == SelectSeq(steps, LAMBDA s : s[1] = name)
                cooccurrences == CountInOrder([i \in DOMAIN mySteps |-> mySteps[i][2]], <<>>)
            IN  [name |-> name,
                 total_mentions |-> total,
                 sentiment |-> [positive |-> positive, negative |-> negative,
                                neutral |-> neutral,
                                score |-> IF total > 0 THEN <<positive - negative, total>>
                                          ELSE <<0, 1>>],
                 top_topics |-> TopItems(topics, 5),
                 top_cooccurrences |-> TopItems(cooccurrences, 5)]
    IN  [i \in DOMAIN names |-> entry(names[i].name)]

----------------------------------------------------------------------------
(* Time series: buckets of publication dates *)

\* data.get(field, default) on a stored document
GetField(doc, field, default) == IF field \in DOMAIN doc THEN doc[field] ELSE default

\* `needle in haystack` on Python strings
Contains(haystack, needle) ==
    \E i \in 0..(Len(haystack) - Len(needle)) : SubSeq(haystack, i + 1, i + Len(needle)) = needle

\* the value of a decimal digit
DigitValue(c) == Ord(c) - 4

\* int(s) for a string of decimal digits
RECURSIVE ParseInt(_)
ParseInt(s) == IF s = <<>> THEN 0 ELSE 10 * ParseInt(DropLast(s, 1)) + DigitValue(s[Len(s)])

\* str(n) for n >= 0
RECURSIVE DecimalStr(_)
DecimalStr(n) == IF n < 10 THEN <<CodeOrder[4 + n]>> ELSE DecimalStr(n \div 10) \o <<CodeOrder[4 + (n % 10)]>>

IsLeap(year) == (year % 4 = 0 /\ year % 100 # 0) \/ year % 400 = 0
DaysInMonth(year, month) ==
    IF month = 2 THEN (IF IsLeap(year) THEN 29 ELSE 28)
    ELSE IF month \in {4, 6, 9, 11} THEN 30 ELSE 31

RECURSIVE DaysBeforeMonth(_, _)
DaysBeforeMonth(year, month) ==
    IF month = 1 THEN 0 ELSE DaysBeforeMonth(year, month - 1) + DaysInMonth(year, month - 1)

\* date.toordinal(): day 1 is 0001-01-01
toordinal(d) ==
    LET y == d.year - 1
    IN  365 * y + (y \div 4) - (y \div 100) + (y \div 400) + DaysBeforeMonth(d.year, d.month) + d.day

\* date.isoweekday(): Monday is 1, Sunday is 7
isoweekday(d) == ((toordinal(d) + 6) % 7) + 1

\* the ISO weeks of a year: 53 when 1 January is a Thursday, or a Wednesday
\* in a leap year
WeeksInYear(year) ==
    LET jan1 == isoweekday([year |-> year, month |-> 1, day |-> 1])
    IN  IF jan1 = 4 \/ (jan1 = 3 /\ IsLeap(year)) THEN 53 ELSE 52

\* date.isocalendar(): ISO year and ISO week
isocalendar(d) ==
    LET doy == DaysBeforeMonth(d.year, d.month) + d.day
        week == (doy - isoweekday(d) + 10) \div 7
    IN  IF week < 1 THEN [year |-> d.year - 1, week |-> WeeksInYear(d.year - 1)]
        ELSE IF week > WeeksInYear(d.year) THEN [year |-> d.year + 1, week |-> 1]
        ELSE [year |-> d.year, week |-> week]

\* datetime.fromisoformat on the calendar form YYYY-MM-DD; any other text of
\* the model's publication dates raises ValueError (ok is FALSE)
fromisoformat(s) ==
    IF /\ Len(s) = 10
       /\ s[5] = "-" /\ s[8] = "-"
       /\ \A i \in {1, 2, 3, 4, 6, 7, 9, 10} : s[i] \in DigitChars
    THEN LET year == ParseInt(SubSeq(s, 1, 4))
             month == ParseInt(SubSeq(s, 6, 7))
             day == ParseInt(SubSeq(s, 9, 10))
         IN  IF year >= 1 /\ month \in 1..12 /\ day >= 1 /\ day <= DaysInMonth(year, month)
             THEN [ok |-> TRUE, year |-> year, month |-> month, day |-> day]
             ELSE [ok |-> FALSE]
    ELSE [ok |-> FALSE]

\* the bucket of a publication date: pub_date[:10] for 'day', the calendar
\* year and the ISO week for 'week', pub_date[:7] for any other granularity;
\* ok is FALSE when fromisoformat raises
time_key(pub_date, granularity) ==
    IF granularity = "day" THEN [ok |-> TRUE, key |-> SliceTo(pub_date, 10)]
    ELSE IF granularity = "week"
    THEN LET dt == fromisoformat(SliceTo(pub_date, 10)) IN
         IF dt.ok
         THEN [ok |-> TRUE,
               key |-> DecimalStr(dt.year) \o <<"-","W">> \o Digits(isocalendar(dt).week, 2)]
         ELSE [ok |-> FALSE]
    ELSE [ok |-> TRUE, key |-> SliceTo(pub_date, 7)]

\* sorted(records) by a string key that no two records share: ascending
SortedByKey(seq, key) ==
    LET before(i) == {j \in DOMAIN seq : StrLess(key[j], key[i])}
    IN  [p \in DOMAIN seq |-> seq[CHOOSE i \in DOMAIN seq : Cardinality(before(i)) = p - 1]]

----------------------------------------------------------------------------
(* FirestoreDB.get_keyword_frequency_over_time *)

\* the text searched for the keyword: the headline, a space and the field
\* 'full_text', each '' when the document does not have it
SearchedText(doc) ==
    lower(GetField(doc, "headline", <<>>) \o <<" ">> \o GetField(doc, "full_text", <<>>))

\* a ValueError raised by fromisoformat for a matching article leaves the
\* loop: the handler returns []
get_keyword_frequency_over_time(docs, keyword, start_date, end_date, granularity) ==
    LET keyword_lower == lower(keyword)
        scanned == SelectSeq(docs, LAMBDA d : DatedInRange(d, start_date, end_date))
        matching == SelectSeq(scanned, LAMBDA d : Contains(SearchedText(d), keyword_lower))
        keys == [i \in DOMAIN matching |->
                    time_key(_normalize_date(matching[i].publication_date), granularity)]
    IN  IF \E i \in DOMAIN keys : ~keys[i].ok THEN <<>>
        ELSE LET time_counts == CountInOrder([i \in DOMAIN keys |-> keys[i].key], <<>>)
                 results == [i \in DOMAIN time_counts |->
                                [date |-> time_counts[i].key, count |-> time_counts[i].count]]
             IN  SortedByKey(results, [i \in DOMAIN results |-> results[i].date])

----------------------------------------------------------------------------
(* FirestoreDB.get_entity_mentions_over_time *)

\* a bucket that takes a counter for any label, as a defaultdict(int) would
SentimentCounters_any_label == {"positive", "negative", "neutral", "mixed"}

\* the counters of one bucket of time_data
SentimentCounters == {"positive", "negative", "neutral"}

\* time_data[time_key][sentiment] += 1 raises KeyError for a label that is
\* not a counter of the bucket, and fromisoformat may raise ValueError: either
\* leaves the loop and the handler returns []
get_entity_mentions_over_time(docs, entity_name, start_date, end_date, granularity) ==
    LET entity_lower == lower(_normalize_entity_name(entity_name))
        scanned == SelectSeq(docs, LAMBDA d : DatedInRange(d, start_date, end_date))
        entity_found(doc) ==
            \E i \in DOMAIN doc.entities :
                lower(_normalize_entity_name(doc.entities[i].text)) = entity_lower
        matching == SelectSeq(scanned, entity_found)
        keys == [i \in DOMAIN matching |->
                    time_key(_normalize_date(matching[i].publication_date), granularity)]
        raises(i) == ~keys[i].ok \/ matching[i].sentiment_label \notin SentimentCounters
    IN  IF \E i \in DOMAIN matching : raises(i) THEN <<>>
        ELSE LET time_data == CountInOrder([i \in DOMAIN keys |-> keys[i].key], <<>>)
                 labelled(k, label) ==
                     Cardinality({i \in DOMAIN matching :
                                    keys[i].key = k /\ matching[i].sentiment_label = label})
                 results == [i \in DOMAIN time_data |->
                     [date |-> time_data[i].key,
                      count |-> time_data[i].count,
                      positive |-> labelled(time_data[i].key, "positive"),
                      negative |-> labelled(time_data[i].key, "negative"),
                      neutral |-> labelled(time_data[i].key, "neutral"),
                      sentiment_score |->
                          <<labelled(time_data[i].key, "positive")
                              - labelled(time_data[i].key, "negative"), time_data[i].count>>]]
             IN  SortedByKey(results, [i \in DOMAIN results |-> results[i].date])

----------------------------------------------------------------------------
(* FirestoreDB.get_location_analytics *)

\* the GPE mentions of one article, as the loop reads them: the type is looked
\* up under the key 'label' (None when the entity record has no such key)
LocationHits(doc) ==
    LET located == SelectSeq(doc.entities, LAMBDA ent : GetField(ent, "label", "None") = "GPE")
    IN  [i \in DOMAIN located |->
            [location |-> title(_normalize_entity_name(located[i].text)),
             sentiment |-> doc.sentiment_label,
             topic |-> doc.topic_label,
             month |-> SliceTo(_normalize_date(doc.publication_date), 7)]]

get_location_analytics(docs, start_date, end_date) ==
    LET scanned == SelectSeq(docs, LAMBDA d : DatedInRange(d, start_date, end_date))
        hits == Concat([i \in DOMAIN scanned |-> LocationHits(scanned[i])])
        location_data == CountInOrder([i \in DOMAIN hits |-> hits[i].location], <<>>)
        top == TopItems(location_data, 20)
        entry(location, total) ==
            LET mine == SelectSeq(hits, LAMBDA h : h.location = location)
                labelled(label) == Len(SelectSeq(mine, LAMBDA h : h.sentiment = label))
                over_time == CountInOrder([i \in DOMAIN mine |-> mine[i].month], <<>>)
                timeline == [i \in DOMAIN over_time |->
                                [date |-> over_time[i].key, count |-> over_time[i].count]]
            IN  [location |-> location,
                 total_mentions |-> total,
                 top_topics |-> TopItems(CountInOrder([i \in DOMAIN mine |-> mine[i].topic], <<>>), 3),
                 sentiment |-> [positive |-> labelled("positive"),
                                negative |-> labelled("negative"),
                                neutral |-> labelled("neutral")],
                 sentiment_score |-> <<labelled("positive") - labelled("negative"), total>>,
                 timeline |-> SortedByKey(timeline, [i \in DOMAIN timeline |-> timeline[i].date])]
    IN  [i \in DOMAIN top |-> entry(top[i].key, top[i].count)]

----------------------------------------------------------------------------
(* The analytics endpoints of mediascope_api *)

\* what the corpus source does during a call: it yields every article, the
\* client cannot be created (get_db raises), stream() raises, or the iteration
\* raises before the last article
SourceStates == {"available", "no_client", "unreachable", "interrupted"}

\* the try/except around the scan of an aggregation: an exception raised by
\* the source is caught and the aggregation returns []
Scanned(source, value) == IF source = "available" THEN value ELSE <<>>

\* the endpoint's own handler: only an exception that leaves get_db or the
\* aggregation becomes HTTP 500
Respond(source, body) ==
    IF source = "no_client" THEN [status |-> 500, body |-> <<>>]
    ELSE [status |-> 200, body |-> body]

top_entities(docs, source, entity_type, limit) ==
    Respond(source,
        Scanned(source, get_top_entities(docs, entity_type, Min2(limit, 100), <<>>, <<>>)))

sentiment_by_entity(docs, source, entity_type, limit) ==
    Respond(source,
        Scanned(source, get_sentiment_by_entity(docs, entity_type, Min2(limit, 100))))

entity_cooccurrence(docs, source, entity_type, min_count, limit) ==
    Respond(source,
        Scanned(source, get_entity_cooccurrence(docs, entity_type, min_count, Min2(limit, 200))))

----------------------------------------------------------------------------
(* FirestoreDB.get_topic_distribution *)

\* the value None of a field of a stored document
NoneValue == <<"None">>

\* count // total_articles * 100: the integer quotient
Percentage_floor_division(count, total_articles) == (count \div total_articles) * 100 * 100

\* round((count / total_articles) * 100, 2), in hundredths of a percent: the
\* nearest hundredth, a tie going to the even one (for fewer than 160 articles
\* the float computation gives the same value as the exact one)
Percentage(count, total_articles) ==
    LET scaled == 10000 * count
        down == scaled \div total_articles
        rest == 2 * (scaled % total_articles)
    IN  IF rest > total_articles \/ (rest = total_articles /\ down % 2 = 1)
        THEN down + 1 ELSE down

get_topic_distribution(docs) ==
    LET topics == [i \in DOMAIN docs |-> GetField(docs[i], "topic_label", <<"U","n","c","a","t","e","g","o","r","i","z","e","d">>)]
        topic_counts == CountInOrder(topics, <<>>)
        total_articles == Len(docs)
        results == [i \in DOMAIN topic_counts |->
                       [topic |-> topic_counts[i].key,
                        count |-> topic_counts[i].count,
                        percentage |-> Percentage(topic_counts[i].count, total_articles)]]
    IN  SortedDescending(results, [i \in DOMAIN results |-> results[i].count])

----------------------------------------------------------------------------
(* FirestoreDB.get_top_keywords *)

\* the characters str.split() separates on
Whitespace == {" ", "\t", "\n"}

\* str.split(): the maximal runs of characters that are not whitespace
RECURSIVE split(_)
split(s) ==
    IF s = <<>> THEN <<>>
    ELSE IF Head(s) \in Whitespace THEN split(Tail(s))
    ELSE LET gaps == {i \in 1..Len(s) : s[i] \in Whitespace}
             n == IF gaps = {} THEN Len(s)
                  ELSE (CHOOSE i \in gaps : \A j \in gaps : i <= j) - 1
         IN  <<SubSeq(s, 1, n)>> \o split(SubSeq(s, n + 1, Len(s)))

\* str.strip(chars): leading and trailing characters of `chars` removed
strip(s, chars) ==
    LET kept == {i \in 1..Len(s) : s[i] \notin chars}
    IN  IF kept = {} THEN <<>>
        ELSE SubSeq(s, CHOOSE i \in kept : \A j \in kept : i <= j,
                       CHOOSE i \in kept : \A j \in kept : i >= j)

\* the argument of word.strip(...)
Punctuation == {".", ",", "!", "?", ";", ":", "\"", "'", "(", ")", "[", "]", "{", "}"}

stop_words ==
    {<<"t","h","e">>, <<"a">>, <<"a","n">>, <<"a","n","d">>, <<"o","r">>, <<"b","u","t">>, <<"i","n">>, <<"o","n">>, <<"a","t">>,
     <<"t","o">>, <<"f","o","r">>, <<"o","f">>, <<"w","i","t","h">>, <<"b","y">>, <<"t","h","i","s">>, <<"t","h","a","t">>, <<"t","h","e","s","e">>,
     <<"t","h","o","s","e">>, <<"i","s">>, <<"w","a","s">>, <<"a","r","e">>, <<"w","e","r","e">>, <<"b","e","e","n">>, <<"b","e">>,
     <<"h","a","v","e">>, <<"h","a","s">>, <<"h","a","d">>, <<"d","o">>, <<"d","o","e","s">>, <<"d","i","d">>, <<"w","i","l","l">>,
     <<"w","o","u","l","d">>, <<"s","h","o","u","l","d">>, <<"c","o","u","l","d">>, <<"m","a","y">>, <<"m","i","g","h","t">>, <<"m","u","s","t">>, <<"c","a","n">>,
     <<"f","r","o","m">>, <<"a","s">>, <<"i","t">>, <<"i","t","s">>, <<"t","h","e","i","r">>, <<"t","h","e","m">>, <<"t","h","e","y">>, <<"h","e">>,
     <<"s","h","e">>, <<"h","i","m">>, <<"h","e","r">>, <<"h","i","s">>, <<"w","e">>, <<"o","u","r">>, <<"u","s">>, <<"y","o","u">>,
     <<"y","o","u","r">>, <<"w","h","i","c","h">>, <<"w","h","o">>, <<"w","h","o","m">>, <<"w","h","o","s","e">>, <<"w","h","a","t">>, <<"w","h","e","n">>,
     <<"w","h","e","r","e">>, <<"w","h","y">>, <<"h","o","w">>, <<"a","l","l">>, <<"e","a","c","h">>, <<"e","v","e","r","y">>, <<"b","o","t","h">>,
     <<"f","e","w">>, <<"m","o","r","e">>, <<"m","o","s","t">>, <<"o","t","h","e","r">>, <<"s","o","m","e">>, <<"s","u","c","h">>, <<"n","o">>,
     <<"n","o","r">>, <<"n","o","t">>, <<"o","n","l","y">>, <<"o","w","n">>, <<"s","a","m","e">>, <<"s","o">>, <<"t","h","a","n">>, <<"t","o","o">>,
     <<"v","e","r","y">>, <<"a","l","s","o">>, <<"j","u","s","t">>, <<"a","b","o","u","t">>, <<"i","n","t","o">>, <<"t","h","r","o","u","g","h">>,
     <<"d","u","r","i","n","g">>, <<"b","e","f","o","r","e">>, <<"a","f","t","e","r">>, <<"a","b","o","v","e">>, <<"b","e","l","o","w">>, <<"b","e","t","w","e","e","n">>,
     <<"u","n","d","e","r">>, <<"a","g","a","i","n">>, <<"f","u","r","t","h","e","r">>, <<"t","h","e","n">>, <<"o","n","c","e">>, <<"h","e","r","e">>,
     <<"t","h","e","r","e">>, <<"u","p">>, <<"d","o","w","n">>, <<"o","u","t">>, <<"o","v","e","r">>, <<"o","f","f">>, <<"a","n","y">>,
     <<"b","e","i","n","g">>, <<"h","a","v","i","n","g">>, <<"d","o","i","n","g">>, <<"o","n","e">>, <<"t","w","o">>, <<"t","h","r","e","e">>, <<"f","o","u","r">>,
     <<"f","i","v","e">>, <<"s","i","x">>, <<"s","e","v","e","n">>, <<"e","i","g","h","t">>, <<"n","i","n","e">>, <<"t","e","n">>, <<"s","a","i","d">>,
     <<"p","a","g","e">>, <<"c","o","n","t","i","n","u","e","d">>, <<"b","a","c","k">>}

\* re.match(r'^\d+[a-z]+$', word)
MatchDigitsLetters(word) ==
    \E k \in 1..(Len(word) - 1) :
        /\ \A i \in 1..k : word[i] \in DigitChars
        /\ \A i \in (k + 1)..Len(word) : IsLower(word[i])

\* re.match(r'^[a-z]+\d+$', word)
MatchLettersDigits(word) ==
    \E k \in 1..(Len(word) - 1) :
        /\ \A i \in 1..k : IsLower(word[i])
        /\ \A i \in (k + 1)..Len(word) : word[i] \in DigitChars

\* re.match(r'^\d{1,2}[-/]\d{1,2}', word): a match of a prefix of the word
MatchDate(word) ==
    \E k \in 1..2 :
        /\ Len(word) >= k + 2
        /\ \A i \in 1..k : word[i] \in DigitChars
        /\ word[k + 1] \in {"-", "/"}
        /\ word[k + 2] \in DigitChars

\* re.search(r'[a-z]', word)
SearchLetter(word) == \E i \in 1..Len(word) : IsLower(word[i])

\* the filter of the cleaned words
KeepWord_three_letters(word) ==
    /\ Len(word) >= 3
    /\ word \notin stop_words
    /\ ~isdigit(word)
    /\ ~MatchDigitsLetters(word)
    /\ ~MatchLettersDigits(word)
    /\ ~MatchDate(word)
    /\ SearchLetter(word)

KeepWord(word) ==
    /\ Len(word) > 3
    /\ word \notin stop_words
    /\ ~isdigit(word)
    /\ ~MatchDigitsLetters(word)
    /\ ~MatchLettersDigits(word)
    /\ ~MatchDate(word)
    /\ SearchLetter(word)

\* the cleaned words of one document, in order
CleanedWords(doc) ==
    LET content == GetField(doc, "content", <<>>) \o <<" ">> \o GetField(doc, "headline", <<>>)
        words == split(lower(content))
    IN  [i \in DOMAIN words |-> strip(words[i], Punctuation)]

get_top_keywords(docs, limit) ==
    LET kept == Concat([d \in DOMAIN docs |-> SelectSeq(CleanedWords(docs[d]), KeepWord)])
        word_freq == CountInOrder(kept, <<>>)
        sorted_keywords == TopItems(word_freq, limit)
    IN  [i \in DOMAIN sorted_keywords |->
            [keyword |-> sorted_keywords[i].key, frequency |-> sorted_keywords[i].count]]

----------------------------------------------------------------------------
(* The endpoints keyword_trend and compare_entities of mediascope_api *)

\* keywords[:5], and the largest list of entities that is compared
MaxKeywords == 5

\* a point in time of keyword_trend, in hours, and its day; ok is FALSE when
\* fromisoformat raised
TrendPoint(dt, hour) ==
    IF dt.ok
    THEN [dated |-> TRUE, ok |-> TRUE, hours |-> 24 * toordinal(dt) + hour, day |-> strftime(dt)]
    ELSE [dated |-> TRUE, ok |-> FALSE]

\* the publication date of a document as keyword_trend reads it: skipped when
\* falsy, a string through fromisoformat, a native datetime as it is
TrendDate(doc) ==
    IF doc.publication_date.kind = "none"
          \/ (doc.publication_date.kind = "str" /\ doc.publication_date.value = <<>>)
    THEN [dated |-> FALSE]
    ELSE IF doc.publication_date.kind = "datetime"
    THEN TrendPoint([ok |-> TRUE, year |-> doc.publication_date.year,
                     month |-> doc.publication_date.month, day |-> doc.publication_date.day],
                    doc.publication_date.hour)
    ELSE TrendPoint(fromisoformat(doc.publication_date.value), 0)

\* the keyword is part of the text of an entity, or of the content followed
\* by the headline
KeywordFound(doc, keyword) ==
    \/ \E i \in DOMAIN doc.entities :
          Contains(lower(doc.entities[i].text), lower(keyword))
    \/ Contains(lower(GetField(doc, "content", <<>>) \o <<" ">> \o GetField(doc, "headline", <<>>)),
                lower(keyword))

\* start_dt <= pub_date <= end_dt, for a date that was read
Between(date, start, end) ==
    date.dated /\ date.ok /\ start <= date.hours /\ date.hours <= end

InTrendRange(doc, start, end) == Between(TrendDate(doc), start, end)

\* a dated document whose date cannot be read
Unreadable(date) == date.dated /\ ~date.ok

\* date_counts as the sorted list of the response
TrendRecords(date_counts) ==
    SortedByKey([i \in DOMAIN date_counts |->
                    [date |-> date_counts[i].key, count |-> date_counts[i].count]],
                [i \in DOMAIN date_counts |-> date_counts[i].key])

\* the days of the matching documents, in scan order
TrendDays(matching) == [i \in DOMAIN matching |-> TrendDate(matching[i]).day]

\* the loop over the documents as dictionaries: the first keyword
TrendOfDicts(docs, keyword, start, end) ==
    IF \E i \in DOMAIN docs : Unreadable(TrendDate(docs[i]))
    THEN [ok |-> FALSE]
    ELSE [ok |-> TRUE,
          trend |-> TrendRecords(CountInOrder(TrendDays(
                        SelectSeq(docs, LAMBDA d : InTrendRange(d, start, end)
                                                     /\ KeywordFound(d, keyword))), <<>>))]

\* the loop over the stream that replaced the list: a document snapshot takes
\* get(field_path) only, so data.get('entities', []) raises TypeError for the
\* first document that is dated and in range
TrendOfSnapshots(docs, keyword, start, end) ==
    IF \E i \in DOMAIN docs :
          Unreadable(TrendDate(docs[i])) \/ InTrendRange(docs[i], start, end)
    THEN [ok |-> FALSE]
    ELSE [ok |-> TRUE, trend |-> <<>>]

\* the checks of the request: a field that is absent or null is the empty
\* sequence
ValidRequest_keywords_only(request) ==
    request.keywords.kind = "list" /\ request.keywords.value # <<>>

ValidRequest(request) ==
    /\ request.keywords.kind = "list" /\ request.keywords.value # <<>>
    /\ request.start_date # <<>> /\ request.end_date # <<>>

\* the trend of each keyword of taken: the first over the list of
\* dictionaries, the later ones over the stream
KeywordTrends(docs, taken, start, end) ==
    [i \in DOMAIN taken |->
        IF i = 1 THEN TrendOfDicts(docs, taken[i], start, end)
        ELSE TrendOfSnapshots(docs, taken[i], start, end)]

\* the response of the loop over the keywords: 500 at the first keyword
\* that raises, else the dictionary of the trends, a repeated keyword with
\* its last trend
TrendResponse(taken, trends, names, failed) ==
    IF failed # {}
    THEN [status |-> 500, body |-> <<>>,
          streamed |-> CHOOSE i \in failed : \A j \in failed : i <= j]
    ELSE [status |-> 200,
          body |-> [i \in DOMAIN names |->
                       [keyword |-> names[i].name,
                        trend |-> trends[CHOOSE k \in DOMAIN taken :
                                     /\ taken[k] = names[i].name
                                     /\ \A j \in DOMAIN taken : taken[j] = names[i].name => j <= k].trend]],
          streamed |-> 1 + Len(taken)]

\* the loop over keywords[:5]
TrendLoop(taken, trends) ==
    TrendResponse(taken, trends, DictKeys(taken), {i \in DOMAIN taken : ~trends[i].ok})

\* keyword_trend after the checks of the request, with the parsed dates
TrendBetween(docs, source, keywords, start, end) ==
    IF source = "no_client" \/ ~start.ok \/ ~end.ok
    THEN [status |-> 500, body |-> <<>>, streamed |-> 0]
    ELSE IF source # "available"
    THEN [status |-> 500, body |-> <<>>, streamed |-> 1]
    ELSE TrendLoop(keywords,
                   KeywordTrends(docs, keywords, 24 * toordinal(start), 24 * toordinal(end)))

\* keyword_trend: the response and the number of times the collection was
\* streamed
keyword_trend(docs, source, request) ==
    IF ~ValidRequest(request)
    THEN [status |-> 400, body |-> <<>>, streamed |-> 0]
    ELSE TrendBetween(docs, source, SliceTo(request.keywords.value, MaxKeywords),
                      fromisoformat(request.start_date), fromisoformat(request.end_date))

\* str.split(sep): the pieces between the separators, empty ones included
RECURSIVE split_on(_, _)
split_on(s, sep) ==
    LET at == {i \in 1..Len(s) : s[i] = sep}
    IN  IF at = {} THEN <<s>>
        ELSE LET n == CHOOSE i \in at : \A j \in at : i <= j
             IN  <<SubSeq(s, 1, n - 1)>> \o split_on(SubSeq(s, n + 1, Len(s)), sep)

\* the endpoint compare_entities: the names of the comma-separated list
entity_list(entities) ==
    LET parts == split_on(entities, ",")
    IN  [i \in DOMAIN parts |-> strip(parts[i], Whitespace)]

api_compare_entities(docs, source, entities, start_date, end_date) ==
    IF source = "no_client" THEN [status |-> 500, body |-> <<>>]
    ELSE IF Len(entity_list(entities)) > MaxKeywords THEN [status |-> 400, body |-> <<>>]
    ELSE [status |-> 200,
          body |-> [entities |-> entity_list(entities),
                    comparison |-> Scanned(source, compare_entities(docs, entity_list(entities),
                                                                    start_date, end_date))]]

----------------------------------------------------------------------------
(* FirestoreDB.get_analytics_articles_over_time and the cache *)

\* self._cache_ttl, in seconds
_cache_ttl == 300

\* the key under which the monthly counts are cached
ArticlesOverTimeKey == "articles_over_time"

\* FirestoreDB._get_cached: the cached value, or a miss (None) when there is
\* no entry or the entry is older than the time to live, or exactly as old
_get_cached_inclusive(db, key, now) ==
    IF key \in DOMAIN db._cache /\ now - GetField(db._cache_timestamp, key, 0) <= _cache_ttl
    THEN [hit |-> TRUE, value |-> db._cache[key]]
    ELSE [hit |-> FALSE]

_get_cached(db, key, now) ==
    IF key \in DOMAIN db._cache /\ now - GetField(db._cache_timestamp, key, 0) < _cache_ttl
    THEN [hit |-> TRUE, value |-> db._cache[key]]
    ELSE [hit |-> FALSE]

\* FirestoreDB._set_cached: the object with the value and the time stored
_set_cached(db, key, value, now) ==
    [_cache |-> (key :> value) @@ db._cache,
     _cache_timestamp |-> (key :> now) @@ db._cache_timestamp]

\* the publication date as the monthly scan reads it: skipped when falsy; a
\* string goes through fromisoformat, which may raise (ok is FALSE)
MonthOf(doc) ==
    LET d == doc.publication_date IN
    IF d.kind = "none" \/ (d.kind = "str" /\ d.value = <<>>) THEN [dated |-> FALSE]
    ELSE LET dt == IF d.kind = "datetime" THEN [ok |-> TRUE, year |-> d.year, month |-> d.month]
                   ELSE fromisoformat(d.value)
         IN  IF dt.ok
             THEN [dated |-> TRUE, ok |-> TRUE,
                   month |-> Digits(dt.year, 4) \o <<"-">> \o Digits(dt.month, 2)]
             ELSE [dated |-> TRUE, ok |-> FALSE]

\* the scan: the number of dated articles of each month, ascending by month;
\* ok is FALSE when the source or the reading of a date raises
MonthlyCounts(docs, source) ==
    IF source # "available" \/ \E i \in DOMAIN docs : MonthOf(docs[i]).dated /\ ~MonthOf(docs[i]).ok
    THEN [ok |-> FALSE]
    ELSE LET dated == SelectSeq(docs, LAMBDA d : MonthOf(d).dated)
             monthly_counts == CountInOrder([i \in DOMAIN dated |-> MonthOf(dated[i]).month], <<>>)
             counts == [i \in DOMAIN monthly_counts |->
                           [month |-> monthly_counts[i].key, count |-> monthly_counts[i].count]]
         IN  [ok |-> TRUE,
              result |-> SortedByKey(counts, [i \in DOMAIN counts |-> counts[i].month])]

\* get_analytics_articles_over_time, as if the except branch stored what it
\* returns
get_analytics_articles_over_time_caches_fallback(db, docs, source, now) ==
    LET cached == _get_cached(db, ArticlesOverTimeKey, now)
        scan == MonthlyCounts(docs, source)
        value == IF scan.ok THEN scan.result ELSE <<>>
    IN  IF cached.hit THEN [result |-> cached.value, db |-> db, scanned |-> FALSE]
        ELSE [result |-> value,
              db |-> _set_cached(db, ArticlesOverTimeKey, value, now),
              scanned |-> TRUE]

\* get_analytics_articles_over_time on the object db at the time now: what it
\* returns, the object afterwards, and whether the collection was scanned
get_analytics_articles_over_time(db, docs, source, now) ==
    LET cached == _get_cached(db, ArticlesOverTimeKey, now)
        scan == MonthlyCounts(docs, source)
    IN  IF cached.hit THEN [result |-> cached.value, db |-> db, scanned |-> FALSE]
        ELSE IF ~scan.ok THEN [result |-> <<>>, db |-> db, scanned |-> TRUE]
        ELSE [result |-> scan.result,
              db |-> _set_cached(db, ArticlesOverTimeKey, scan.result, now),
              scanned |-> TRUE]

----------------------------------------------------------------------------
(* _init_pipeline of mediascope_api *)

\* the global pipeline before the first successful construction: None
NoPipeline == [state |-> "None"]

\* a MediaScopePipeline after its constructor: its database handle is None
ConstructedPipeline == [state |-> "constructed"]

\* a MediaScopePipeline after initialize(): its database is connected
InitializedPipeline == [state |-> "initialized"]

\* _init_pipeline on the globals pipeline and PIPELINE_AVAILABLE: the globals
\* afterwards and the value returned (NoPipeline is None). constructs says
\* whether the import and the constructors succeed, connects whether
\* initialize(), that is MediaScopeDatabase.connect, succeeds
_init_pipeline(p, available, constructs, connects) ==
    IF p # NoPipeline
    THEN [pipeline |-> p, PIPELINE_AVAILABLE |-> available, returned |-> p]
    ELSE IF ~constructs
    THEN [pipeline |-> NoPipeline, PIPELINE_AVAILABLE |-> FALSE, returned |-> NoPipeline]
    ELSE IF ~connects
    THEN [pipeline |-> ConstructedPipeline, PIPELINE_AVAILABLE |-> FALSE,
          returned |-> NoPipeline]
    ELSE [pipeline |-> InitializedPipeline, PIPELINE_AVAILABLE |-> TRUE,
          returned |-> InitializedPipeline]

\* what the endpoint does with the outcome: process_local_folder and
\* trigger_ocr_processing answer 503 when nothing was returned, and go on
\* otherwise. train_topic_model raises 503 when PIPELINE_AVAILABLE is false,
\* get_topics raises 400 then and also when the topic model is None, as it is
\* until a training has run; both raise inside a try whose handler answers 500
Gate(caller, outcome) ==
    IF caller = "get_topics" THEN "500"
    ELSE IF caller = "train_topic_model"
    THEN IF outcome.PIPELINE_AVAILABLE THEN "proceeds" ELSE "500"
    ELSE IF outcome.returned # NoPipeline THEN "proceeds" ELSE "503"

----------------------------------------------------------------------------
(* Inputs of the normalizer *)

\* every upper/lower-case spelling of a string
CaseSpellings(s) ==
    {[i \in 1..Len(s) |-> IF i \in U THEN UpperChar(s[i]) ELSE s[i]] : U \in SUBSET (1..Len(s))}

TableSpellings == UNION {CaseSpellings(k) : k \in normalization_keys}

StemAlphabet == {"a", "e", "i", "n", "s"}
GeneratedStems == UNION {[1..n -> StemAlphabet] : n \in 0..MaxStemLen}
NamedStems == {<<"a","m","e","r","i","c">>,
               <<"b","e","n","i","n">>,
               <<"c","h","i","n">>,
               <<"d","e","n","n">>,
               <<"e","g","y","p","t">>,
               <<"p","a","r">>,
               <<"s","y","r">>,
               <<"s","u","d","a","n">>,
               <<"t","a","i","w","a","n">>,
               <<"t","u","n">>,
               <<"v","i","e","t","n","a","m">>,
               <<"o","'","b","r","i">>,
               <<"n","e","w"," ","z","e","a","l">>}
Suffixes == {<<>>, <<"s">>, <<"a","n">>, <<"a","n","s">>, <<"e","s","e">>, <<"i","s">>,
             <<"i","n","e","s","e">>, <<"i">>}

\* the word as extracted: lower case, capitalized, or upper case
Casings(s) == {s, title(s), [i \in 1..Len(s) |-> UpperChar(s[i])]}

OtherTexts == UNION {Casings(st \o su) : st \in GeneratedStems \cup NamedStems, su \in Suffixes}

NormInputs == TableSpellings \cup OtherTexts

----------------------------------------------------------------------------
(* The corpus and the annotated articles stored in it *)

\* entity types of the mentions of the model (spaCy labels)
MentionPool ==
    {[text |-> <<"P","a","k","i","s","t","a","n">>, type |-> "GPE"],
     [text |-> <<"P","a","k","i","s","t","a","n","i">>, type |-> "NORP"],
     [text |-> <<"I","n","d","i","a">>, type |-> "GPE"],
     [text |-> <<"U","S">>, type |-> "GPE"],
     [text |-> <<"1","9","9","0">>, type |-> "ORG"],
     [text |-> <<"F","r","i","d","a","y">>, type |-> "DATE"]}

EntityLists(pool, n) == UNION {[1..k -> pool] : k \in 0..n}

\* label and score as analyze_sentiment returns them (score in thousandths)
Sentiments ==
    {[label |-> "positive", score |-> 900],
     [label |-> "neutral", score |-> 0],
     [label |-> "negative", score |-> -600]}

\* publication dates as they are found in the collection: absent, a native
\* datetime, a date-only string, an ISO-8601 string with a time part
Days == {14, 15, 16}
DateStr(day) == Digits(1990, 4) \o <<"-","0","3","-">> \o Digits(day, 2)
DateValues ==
    {[kind |-> "none"]}
    \cup {[kind |-> "datetime", year |-> 1990, month |-> 3, day |-> d, hour |-> 10] : d \in Days}
    \cup {[kind |-> "str", value |-> DateStr(d)] : d \in Days}
    \cup {[kind |-> "str", value |-> DateStr(d) \o <<"T","1","0",":","0","0",":","0","0">>] : d \in Days}

Article(entities, sentiment, publication_date, topic_label) ==
    [entities |-> entities,
     sentiment_label |-> sentiment.label,
     sentiment_score |-> sentiment.score,
     publication_date |-> publication_date,
     topic_label |-> topic_label]

DefaultSentiment == [label |-> "neutral", score |-> 0]
DefaultDate == [kind |-> "datetime", year |-> 1990, month |-> 1, day |-> 1, hour |-> 0]

\* articles that differ in their entity mentions only (at most n mentions)
EntityArticles(n) ==
    {Article(e, DefaultSentiment, DefaultDate, <<"P","o","l","i","t","i","c","s">>) :
        e \in EntityLists(MentionPool, n)}

\* articles for the co-occurrence aggregation: names, a demonym, a short name and a date
PairMentionPool ==
    {m \in MentionPool : m.text \in {<<"P","a","k","i","s","t","a","n">>, <<"P","a","k","i","s","t","a","n","i">>, <<"I","n","d","i","a">>, <<"U","S">>, <<"F","r","i","d","a","y">>}}
PairArticles(n) ==
    {Article(e, DefaultSentiment, DefaultDate, <<"P","o","l","i","t","i","c","s">>) :
        e \in EntityLists(PairMentionPool, n)}

\* articles that differ in their mentions and their sentiment
SentimentMentionPool ==
    {m \in MentionPool : m.text \in {<<"P","a","k","i","s","t","a","n">>, <<"P","a","k","i","s","t","a","n","i">>, <<"I","n","d","i","a">>, <<"U","S">>}}
SentimentArticles(n) ==
    {Article(e, s, DefaultDate, <<"P","o","l","i","t","i","c","s">>) :
        e \in EntityLists(SentimentMentionPool, n), s \in Sentiments}

\* articles that differ in their publication date, with at most one mention
DatedMentionPool == {m \in MentionPool : m.text \in {<<"P","a","k","i","s","t","a","n">>, <<"I","n","d","i","a">>}}
DatedArticles(n) ==
    {Article(e, DefaultSentiment, d, <<"P","o","l","i","t","i","c","s">>) :
        e \in EntityLists(DatedMentionPool, Min2(n, 1)), d \in DateValues}

\* articles for the comparison of requested entities
ComparedMentionPool ==
    {m \in MentionPool : m.text \in {<<"P","a","k","i","s","t","a","n">>, <<"P","a","k","i","s","t","a","n","i">>, <<"I","n","d","i","a">>, <<"U","S">>}}
ComparedArticles(n) ==
    {Article(e, s, DefaultDate, <<"P","o","l","i","t","i","c","s">>) :
        e \in EntityLists(ComparedMentionPool, n),
        s \in {x \in Sentiments : x.label # "neutral"}}

\* an article as store_article writes it, with its headline and content
TextArticle(entities, sentiment, publication_date, topic_label, headline, content) ==
    Article(entities, sentiment, publication_date, topic_label)
        @@ [headline |-> headline, content |-> content]

\* articles that differ in their headline, content and day of publication
Headlines == {<<"O","i","l"," ","D","e","a","l">>, <<"B","u","d","g","e","t">>}
Contents == {<<>>, <<"C","h","e","a","p"," ","o","i","l">>}
KeywordArticles ==
    {TextArticle(<<>>, DefaultSentiment, [kind |-> "str", value |-> DateStr(d)], <<"P","o","l","i","t","i","c","s">>, h, c) :
        h \in Headlines, c \in Contents, d \in Days}

\* publication dates over the weeks of a year: the first Monday of 1990, a day
\* in March as a string and as a native datetime, the last day of 1990 (a
\* Monday, in ISO week 1 of 1991), and a date written day first
SeriesDates ==
    {[kind |-> "str", value |-> <<"1","9","9","0","-","0","1","-","0","1">>],
     [kind |-> "str", value |-> DateStr(15)],
     [kind |-> "datetime", year |-> 1990, month |-> 3, day |-> 15, hour |-> 10],
     [kind |-> "str", value |-> <<"1","9","9","0","-","1","2","-","3","1">>],
     [kind |-> "str", value |-> <<"1","5","-","0","3","-","1","9","9","0">>]}

\* a label of the classifier other than positive, neutral and negative
UnknownSentiment == [label |-> "mixed", score |-> 0]

\* articles that differ in their publication date, their sentiment label and
\* whether they mention Pakistan
SeriesArticles ==
    {TextArticle(e, s, d, <<"P","o","l","i","t","i","c","s">>, <<"O","i","l"," ","D","e","a","l">>, <<>>) :
        e \in EntityLists(DatedMentionPool \ {m \in MentionPool : m.text = <<"I","n","d","i","a">>}, 1),
        s \in {x \in Sentiments : x.label = "positive"} \cup {UnknownSentiment},
        d \in SeriesDates}

\* articles that differ in their mentions of places and peoples, their
\* sentiment and whether they are dated
LocationMentionPool ==
    {m \in MentionPool : m.text \in {<<"P","a","k","i","s","t","a","n">>, <<"P","a","k","i","s","t","a","n","i">>, <<"I","n","d","i","a">>}}
LocationArticles(n) ==
    {Article(e, s, d, <<"P","o","l","i","t","i","c","s">>) :
        e \in EntityLists(LocationMentionPool, n),
        s \in {x \in Sentiments : x.label # "neutral"},
        d \in {[kind |-> "none"], [kind |-> "str", value |-> DateStr(15)]}}

\* articles for the endpoints: names and a demonym
EndpointMentionPool ==
    {m \in MentionPool : m.text \in {<<"P","a","k","i","s","t","a","n">>, <<"P","a","k","i","s","t","a","n","i">>, <<"I","n","d","i","a">>}}
EndpointArticles(n) ==
    {Article(e, DefaultSentiment, DefaultDate, <<"P","o","l","i","t","i","c","s">>) :
        e \in EntityLists(EndpointMentionPool, n)}

\* topic labels as they are stored: assigned by the topic model, '' (the
\* default of store_article) and None (what the pipeline passes before topics
\* are trained)
TopicLabels == {<<"P","o","l","i","t","i","c","s">>, <<"S","p","o","r","t","s">>, <<>>, NoneValue}

\* articles that differ in their topic and their sentiment
TopicArticles ==
    {Article(<<>>, s, DefaultDate, topic) : s \in Sentiments, topic \in TopicLabels}

\* a collection given by the number of articles of each of its topics
TopicName(i) == <<"T","o","p","i","c"," ">> \o Digits(i, 2)
TopicCorpus(counts) ==
    Concat([i \in DOMAIN counts |->
               [j \in 1..counts[i] |-> Article(<<>>, DefaultSentiment, DefaultDate, TopicName(i))]])

\* collections of few topics with any shares, and collections of many topics
\* in which the first topics have two articles and the others one
FewTopicShares == UNION {[1..k -> 1..MaxShare] : k \in 1..3}
ManyTopicShares ==
    {[i \in 1..k |-> IF i <= twice THEN 2 ELSE 1] : k \in 1..MaxTopics, twice \in 0..2}
TopicCorpora == {TopicCorpus(counts) : counts \in FewTopicShares \cup ManyTopicShares}

\* articles for the keyword extraction: years, dates, ordinals, stop words,
\* punctuation, repeated words and words of three to five letters
WordContents ==
    {<<>>,
     <<"I","n"," ","1","9","9","0"," ","t","h","e"," ","t","r","a","d","e"," ","t","a","l","k","s">>,
     <<"T","r","a","d","e",","," ","a","b","o","u","t"," ","1","1","/","0","3",":"," ","(","t","a","l","k","s",")"," ","1","9","9","0","s"," ","m","a","r","c","h","1","1"," ","o","i","l">>,
     <<"1","2","-","5","p","m"," ","-","-","-","-"," ","m","i","6","h","q"," ","t","r","a","d","e","."," ","1","1","/","0","3","/","1","9","9","0">> \o <<"\n">> \o <<"[","O","i","l","]"," "," ","p","r","i","c","e","s">>}
WordHeadlines == {<<"B","u","d","g","e","t"," ","1","9","9","0">>, <<"T","h","e"," ","T","a","l","k","s","!">>}
WordArticles ==
    {TextArticle(<<>>, DefaultSentiment, DefaultDate, <<"P","o","l","i","t","i","c","s">>, h, c) :
        h \in WordHeadlines, c \in WordContents}

\* articles that mention Pakistan once or twice and differ in their sentiment
\* label and their day of publication
ScoredArticles ==
    {Article(e, s, d, <<"P","o","l","i","t","i","c","s">>) :
        e \in {<<[text |-> <<"P","a","k","i","s","t","a","n">>, type |-> "GPE"]>>,
               <<[text |-> <<"P","a","k","i","s","t","a","n","i">>, type |-> "NORP"], [text |-> <<"P","a","k","i","s","t","a","n">>, type |-> "GPE"]>>},
        s \in Sentiments \cup {UnknownSentiment},
        d \in {[kind |-> "str", value |-> <<"1","9","9","0","-","0","1","-","0","1">>], [kind |-> "str", value |-> DateStr(15)]}}

\* articles for the repeated aggregations: a place under two types and spellings
RepeatMentionPool ==
    {m \in MentionPool : m.text \in {<<"P","a","k","i","s","t","a","n">>, <<"P","a","k","i","s","t","a","n","i">>, <<"I","n","d","i","a">>}}
RepeatArticles(n) ==
    {Article(e, DefaultSentiment, DefaultDate, <<"P","o","l","i","t","i","c","s">>) :
        e \in EntityLists(RepeatMentionPool, n)}

\* articles for the keyword trends: with or without a mention, undated or
\* dated by a string, a native datetime or a text that is not a date
TrendArticles ==
    {TextArticle(e, DefaultSentiment, d, <<"P","o","l","i","t","i","c","s">>, <<"O","i","l"," ","D","e","a","l">>, <<>>) :
        e \in {<<>>, <<[text |-> <<"I","n","d","i","a">>, type |-> "GPE"]>>},
        d \in {[kind |-> "none"],
               [kind |-> "str", value |-> DateStr(14)],
               [kind |-> "datetime", year |-> 1990, month |-> 3, day |-> 15, hour |-> 10],
               [kind |-> "str", value |-> <<"1","5","-","0","3","-","1","9","9","0">>]}}

\* articles of two months, one dated by a string and one by a native
\* datetime, and an article whose date is not a calendar date
MonthlyArticles ==
    {Article(<<>>, DefaultSentiment, d, <<"P","o","l","i","t","i","c","s">>) :
        d \in {[kind |-> "str", value |-> DateStr(14)],
               [kind |-> "datetime", year |-> 1990, month |-> 4, day |-> 2, hour |-> 10],
               [kind |-> "str", value |-> <<"1","5","-","0","3","-","1","9","9","0">>]}}

\* the size of a collection: its entity mentions, an article without mentions
\* counting as one
RECURSIVE CollectionSize(_)
CollectionSize(docs) ==
    IF docs = <<>> THEN 0
    ELSE Max2(1, Len(Head(docs).entities)) + CollectionSize(Tail(docs))

\* the mentions the collection can still take
Room == MaxMentions - CollectionSize(articles)

EntityTypeArgs == {NoType, "GPE"}
LimitArgs == 0..MaxLimit
MinCountArgs == 1..MaxMinCount
DateArgs == {<<>>, DateStr(15)}
NamePool == {<<"P","a","k","i","s","t","a","n","i">>, <<"P","a","k","i","s","t","a","n">>, <<"I","n","d","i","a">>, <<"A","m","e","r","i","c","a">>}
NameArgs == UNION {[1..n -> NamePool] : n \in 0..MaxNames}

KeywordArgs == {<<"o","i","l">>, <<"O","I","L">>, <<"t","a","x">>}
GranularityArgs == {"day", "week", "month"}

\* the `limit` query parameter of an endpoint: any integer
EndpointLimitArgs == {-1, 0, 101} \cup 1..MaxLimit

\* the `limit` argument of get_top_keywords, with its default
KeywordLimitArgs == {-1, 50} \cup 0..MaxLimit

\* the orders in which the stream of the collection may yield n documents
StreamOrders(n) == {f \in [1..n -> 1..n] : \A i, j \in 1..n : f[i] = f[j] => i = j}

\* the documents as the stream yields them in an order
Streamed(docs, order) == [i \in DOMAIN docs |-> docs[order[i]]]

\* the field 'keywords' of a request body: absent, null, a string, or a list of
\* no, one, two or six keywords
KeywordsArgs ==
    {[kind |-> "absent"], [kind |-> "none"], [kind |-> "str", value |-> <<"o","i","l">>]}
    \cup {[kind |-> "list", value |-> v] :
            v \in {<<>>, <<<<"i","n","d","i","a">>>>, <<<<"O","I","L">>, <<"t","a","x">>>>, <<<<"t","a","x">>, <<"i","n","d","i","a">>, <<"t","a","x">>>>,
                   <<<<"t","a","x">>, <<"o","i","l">>, <<"d","e","a","l">>, <<"i","n","d","i","a">>, <<"b","u","d","g","e","t">>, <<"c","h","e","a","p">>>>}}

\* the fields 'start_date' and 'end_date' of a request body
TrendRequests ==
    {[keywords |-> k, start_date |-> s, end_date |-> e] :
        k \in KeywordsArgs, s \in {<<>>, DateStr(14)}, e \in {<<>>, DateStr(16), <<"1","6","-","0","3","-","1","9","9","0">>}}

\* the query parameter 'entities': two, three, five and six names
EntitiesArgs ==
    {<<"P","a","k","i","s","t","a","n",","," ","I","n","d","i","a">>, <<"I","n","d","i","a",",","U","S",",","I","n","d","i","a">>, <<"P","a","k","i","s","t","a","n",",","I","n","d","i","a",",","U","S",",","C","h","i","n","a",",","I","r","a","n">>,
     <<"P","a","k","i","s","t","a","n",",","I","n","d","i","a",",","U","S",",","C","h","i","n","a",",","I","r","a","n",",","I","r","a","q">>}

\* the seconds between two readings of the clock: half the time to live
TickSeconds == _cache_ttl \div 2

\* the endpoints that call _init_pipeline and go on with its outcome
PipelineCallers ==
    {"process_local_folder", "trigger_ocr_processing", "train_topic_model", "get_topics"}

----------------------------------------------------------------------------
(* State machines *)

Idle == [op |-> "idle"]

\* a FirestoreDB object as __init__ leaves it: both dictionaries of the cache
\* are empty
FirestoreDB == [_cache |-> <<>>, _cache_timestamp |-> <<>>]


\* the process once the module is loaded and the database object is in use
Started ==
    /\ clock = 0
    /\ instances = <<FirestoreDB>>
    /\ _db_instance = 1
    /\ _apps = TRUE
    /\ threads = <<>>
    /\ pipeline = NoPipeline
    /\ PIPELINE_AVAILABLE = FALSE

Init ==
    /\ articles = <<>>
    /\ call = Idle
    /\ result = <<>>
    /\ Started

\* FirestoreDB.store_article: ingestion adds one annotated article
StoreArticle(article_data) ==
    /\ call = Idle
    /\ Len(articles) < MaxArticles
    /\ CollectionSize(articles) + Max2(1, Len(article_data.entities)) <= MaxMentions
    /\ articles' = Append(articles, article_data)
    /\ UNCHANGED <<call, result, process>>

GetTopEntities(entity_type, limit, start_date, end_date) ==
    /\ call = Idle
    /\ call' = [op |-> "get_top_entities", entity_type |-> entity_type, limit |-> limit,
                start_date |-> start_date, end_date |-> end_date]
    /\ result' = get_top_entities(articles, entity_type, limit, start_date, end_date)
    /\ UNCHANGED <<articles, process>>

GetSentimentByEntity(entity_type, limit) ==
    /\ call = Idle
    /\ call' = [op |-> "get_sentiment_by_entity", entity_type |-> entity_type, limit |-> limit]
    /\ result' = get_sentiment_by_entity(articles, entity_type, limit)
    /\ UNCHANGED <<articles, process>>

GetEntityCooccurrence(entity_type, min_count, limit) ==
    /\ call = Idle
    /\ call' = [op |-> "get_entity_cooccurrence", entity_type |-> entity_type,
                min_count |-> min_count, limit |-> limit]
    /\ result' = get_entity_cooccurrence(articles, entity_type, min_count, limit)
    /\ UNCHANGED <<articles, process>>

CompareEntities(entity_names, start_date, end_date) ==
    /\ call = Idle
    /\ call' = [op |-> "compare_entities", entity_names |-> entity_names,
                start_date |-> start_date, end_date |-> end_date]
    /\ result' = compare_entities(articles, entity_names, start_date, end_date)
    /\ UNCHANGED <<articles, process>>

GetKeywordFrequencyOverTime(keyword, start_date, end_date, granularity) ==
    /\ call = Idle
    /\ call' = [op |-> "get_keyword_frequency_over_time", keyword |-> keyword,
                start_date |-> start_date, end_date |-> end_date, granularity |-> granularity]
    /\ result' = get_keyword_frequency_over_time(articles, keyword, start_date, end_date,
                                                 granularity)
    /\ UNCHANGED <<articles, process>>

GetEntityMentionsOverTime(entity_name, start_date, end_date, granularity) ==
    /\ call = Idle
    /\ call' = [op |-> "get_entity_mentions_over_time", entity_name |-> entity_name,
                start_date |-> start_date, end_date |-> end_date, granularity |-> granularity]
    /\ result' = get_entity_mentions_over_time(articles, entity_name, start_date, end_date,
                                               granularity)
    /\ UNCHANGED <<articles, process>>

GetLocationAnalytics(start_date, end_date) ==
    /\ call = Idle
    /\ call' = [op |-> "get_location_analytics", start_date |-> start_date,
                end_date |-> end_date]
    /\ result' = get_location_analytics(articles, start_date, end_date)
    /\ UNCHANGED <<articles, process>>

TopEntitiesEndpoint(source, entity_type, limit) ==
    /\ call = Idle
    /\ call' = [op |-> "top_entities", source |-> source, entity_type |-> entity_type,
                limit |-> limit, cap |-> 100]
    /\ result' = top_entities(articles, source, entity_type, limit)
    /\ UNCHANGED <<articles, process>>

SentimentByEntityEndpoint(source, entity_type, limit) ==
    /\ call = Idle
    /\ call' = [op |-> "sentiment_by_entity", source |-> source, entity_type |-> entity_type,
                limit |-> limit, cap |-> 100]
    /\ result' = sentiment_by_entity(articles, source, entity_type, limit)
    /\ UNCHANGED <<articles, process>>

EntityCooccurrenceEndpoint(source, entity_type, min_count, limit) ==
    /\ call = Idle
    /\ call' = [op |-> "entity_cooccurrence", source |-> source, entity_type |-> entity_type,
                min_count |-> min_count, limit |-> limit, cap |-> 200]
    /\ result' = entity_cooccurrence(articles, source, entity_type, min_count, limit)
    /\ UNCHANGED <<articles, process>>

GetTopicDistribution ==
    /\ call = Idle
    /\ call' = [op |-> "get_topic_distribution"]
    /\ result' = get_topic_distribution(articles)
    /\ UNCHANGED <<articles, process>>

GetTopKeywords(limit) ==
    /\ call = Idle
    /\ call' = [op |-> "get_top_keywords", limit |-> limit]
    /\ result' = get_top_keywords(articles, limit)
    /\ UNCHANGED <<articles, process>>

\* the same aggregation, called again on the unchanged collection: the source
\* yields the documents in some order, and the call keeps the earlier result
GetTopEntitiesAgain ==
    /\ call.op = "get_top_entities"
    /\ "previous" \notin DOMAIN call
    /\ \E order \in StreamOrders(Len(articles)) :
          /\ call' = call @@ [previous |-> result, order |-> order]
          /\ result' = get_top_entities(Streamed(articles, order), call.entity_type,
                                        call.limit, call.start_date, call.end_date)
    /\ UNCHANGED <<articles, process>>

GetSentimentByEntityAgain ==
    /\ call.op = "get_sentiment_by_entity"
    /\ "previous" \notin DOMAIN call
    /\ \E order \in StreamOrders(Len(articles)) :
          /\ call' = call @@ [previous |-> result, order |-> order]
          /\ result' = get_sentiment_by_entity(Streamed(articles, order), call.entity_type,
                                               call.limit)
    /\ UNCHANGED <<articles, process>>

KeywordTrendEndpoint(source, request) ==
    /\ call = Idle
    /\ \E answer \in {keyword_trend(articles, source, request)} :
          /\ call' = [op |-> "keyword_trend", source |-> source, request |-> request,
                      streamed |-> answer.streamed]
          /\ result' = [status |-> answer.status, body |-> answer.body]
    /\ UNCHANGED <<articles, process>>

CompareEntitiesEndpoint(source, entities, start_date, end_date) ==
    /\ call = Idle
    /\ call' = [op |-> "api_compare_entities", source |-> source, entities |-> entities,
                start_date |-> start_date, end_date |-> end_date]
    /\ result' = api_compare_entities(articles, source, entities, start_date, end_date)
    /\ UNCHANGED <<articles, process>>

\* the number of the last call of a behaviour with several calls
CallCount == IF "seq" \in DOMAIN call THEN call.seq ELSE 0

\* store_article at any time: the corpus changes between two calls
StoreLater(article_data) ==
    /\ Len(articles) < MaxArticles
    /\ articles' = Append(articles, article_data)
    /\ UNCHANGED <<call, result, process>>

Tick ==
    /\ clock < MaxTicks * TickSeconds
    /\ clock' = clock + TickSeconds
    /\ UNCHANGED <<articles, call, result, instances, _db_instance, _apps, threads,
                   pipeline, PIPELINE_AVAILABLE>>

GetAnalyticsArticlesOverTime(source) ==
    LET answer == get_analytics_articles_over_time(instances[_db_instance], articles,
                                                   source, clock)
    IN  /\ CallCount < MaxCalls
        /\ call' = [op |-> "get_analytics_articles_over_time", source |-> source,
                    seq |-> CallCount + 1, scanned |-> answer.scanned,
                    expired |-> ArticlesOverTimeKey \in DOMAIN instances[_db_instance]._cache
                                /\ answer.scanned]
        /\ result' = answer.result
        /\ instances' = [instances EXCEPT ![_db_instance] = answer.db]
        /\ UNCHANGED <<articles, clock, _db_instance, _apps, threads, pipeline,
                       PIPELINE_AVAILABLE>>

\* ---- the endpoint articles_over_time in the threads of the pool ----
\* a thread is at a statement (pc) of the endpoint, of get_db, of
\* FirestoreDB.__init__, of _get_cached or of _set_cached; self is the object
\* it works on, value the counts it scanned, response what it has returned

\* a request arrives and a thread of the pool takes it
StartRequest ==
    /\ Len(threads) < MaxThreads
    /\ threads' = Append(threads, [pc |-> "get_db", self |-> 0, value |-> <<>>,
                                   response |-> [status |-> 0]])
    /\ UNCHANGED <<articles, call, result, clock, instances, _db_instance, _apps,
                   pipeline, PIPELINE_AVAILABLE>>

\* threads with the thread t at the statement pc
Goto(t, pc) == [threads EXCEPT ![t].pc = pc]

\* threads with the thread t finished with a response
Finish(t, response) == [threads EXCEPT ![t].pc = "done", ![t].response = response]

\* get_db: if _db_instance is None
GetDbTest(t) ==
    /\ threads[t].pc = "get_db"
    /\ threads' = IF _db_instance = 0 THEN Goto(t, "__init__")
                  ELSE [Goto(t, "_get_cached") EXCEPT ![t].self = _db_instance]
    /\ UNCHANGED <<articles, call, result, clock, instances, _db_instance, _apps,
                   pipeline, PIPELINE_AVAILABLE>>

\* FirestoreDB(): a new object with an empty cache; if not firebase_admin._apps
NewFirestoreDB(t) ==
    /\ threads[t].pc = "__init__"
    /\ instances' = Append(instances, FirestoreDB)
    /\ threads' = [Goto(t, IF _apps THEN "assign" ELSE "initialize_app")
                      EXCEPT ![t].self = Len(instances) + 1]
    /\ UNCHANGED <<articles, call, result, clock, _db_instance, _apps,
                   pipeline, PIPELINE_AVAILABLE>>

\* firebase_admin.initialize_app(): registers the default app, and raises
\* ValueError when the default app exists; the endpoint answers 500
InitializeApp(t) ==
    /\ threads[t].pc = "initialize_app"
    /\ IF _apps
       THEN /\ threads' = Finish(t, [status |-> 500])
            /\ UNCHANGED _apps
       ELSE /\ threads' = Goto(t, "assign")
            /\ _apps' = TRUE
    /\ UNCHANGED <<articles, call, result, clock, instances, _db_instance,
                   pipeline, PIPELINE_AVAILABLE>>

\* get_db: _db_instance = FirestoreDB()
AssignDbInstance(t) ==
    /\ threads[t].pc = "assign"
    /\ _db_instance' = threads[t].self
    /\ threads' = Goto(t, "return")
    /\ UNCHANGED <<articles, call, result, clock, instances, _apps,
                   pipeline, PIPELINE_AVAILABLE>>

\* get_db: return _db_instance
ReturnDbInstance(t) ==
    /\ threads[t].pc = "return"
    /\ threads' = [Goto(t, "_get_cached") EXCEPT ![t].self = _db_instance]
    /\ UNCHANGED <<articles, call, result, clock, instances, _db_instance, _apps,
                   pipeline, PIPELINE_AVAILABLE>>

\* _get_cached: if key in self._cache
GetCachedKey(t) ==
    /\ threads[t].pc = "_get_cached"
    /\ threads' = IF ArticlesOverTimeKey \in DOMAIN instances[threads[t].self]._cache
                  THEN Goto(t, "ttl") ELSE Goto(t, "scan")
    /\ UNCHANGED <<articles, call, result, clock, instances, _db_instance, _apps,
                   pipeline, PIPELINE_AVAILABLE>>

\* _get_cached: if time.time() - self._cache_timestamp.get(key, 0) < self._cache_ttl
GetCachedTtl(t) ==
    /\ threads[t].pc = "ttl"
    /\ threads' = IF clock - GetField(instances[threads[t].self]._cache_timestamp,
                                      ArticlesOverTimeKey, 0) < _cache_ttl
                  THEN Goto(t, "hit") ELSE Goto(t, "scan")
    /\ UNCHANGED <<articles, call, result, clock, instances, _db_instance, _apps,
                   pipeline, PIPELINE_AVAILABLE>>

\* _get_cached: return self._cache[key], which the endpoint returns
GetCachedValue(t) ==
    /\ threads[t].pc = "hit"
    /\ threads' = Finish(t, [status |-> 200,
                              timeline |-> instances[threads[t].self]._cache[ArticlesOverTimeKey]])
    /\ UNCHANGED <<articles, call, result, clock, instances, _db_instance, _apps,
                   pipeline, PIPELINE_AVAILABLE>>

\* the scan of the collection into local accumulators; a scan that raises
\* returns the empty list
ScanArticles(t) ==
    /\ threads[t].pc = "scan"
    /\ LET scan == MonthlyCounts(articles, "available") IN
       threads' = IF scan.ok THEN [Goto(t, "_set_cached") EXCEPT ![t].value = scan.result]
                  ELSE Finish(t, [status |-> 200, timeline |-> <<>>])
    /\ UNCHANGED <<articles, call, result, clock, instances, _db_instance, _apps,
                   pipeline, PIPELINE_AVAILABLE>>

\* _set_cached: self._cache[key] = value
SetCachedValue(t) ==
    /\ threads[t].pc = "_set_cached"
    /\ instances' = [instances EXCEPT ![threads[t].self]._cache =
                        (ArticlesOverTimeKey :> threads[t].value) @@ @]
    /\ threads' = Goto(t, "timestamp")
    /\ UNCHANGED <<articles, call, result, clock, _db_instance, _apps,
                   pipeline, PIPELINE_AVAILABLE>>

\* _set_cached: self._cache_timestamp[key] = time.time(); return result
SetCachedTimestamp(t) ==
    /\ threads[t].pc = "timestamp"
    /\ instances' = [instances EXCEPT ![threads[t].self]._cache_timestamp =
                        (ArticlesOverTimeKey :> clock) @@ @]
    /\ threads' = Finish(t, [status |-> 200, timeline |-> threads[t].value])
    /\ UNCHANGED <<articles, call, result, clock, _db_instance, _apps,
                   pipeline, PIPELINE_AVAILABLE>>

\* an endpoint calls _init_pipeline; the environment decides whether the
\* dependencies can be loaded and whether Firestore can be reached
InitPipeline(caller, constructs, connects) ==
    LET outcome == _init_pipeline(pipeline, PIPELINE_AVAILABLE, constructs, connects)
    IN  /\ CallCount < MaxCalls
        /\ pipeline' = outcome.pipeline
        /\ PIPELINE_AVAILABLE' = outcome.PIPELINE_AVAILABLE
        /\ call' = [op |-> "_init_pipeline", caller |-> caller, seq |-> CallCount + 1,
                    constructs |-> constructs, connects |-> connects]
        /\ result' = [returned |-> outcome.returned, gate |-> Gate(caller, outcome)]
        /\ UNCHANGED <<articles, clock, instances, _db_instance, _apps, threads>>

\* ingestion, while no aggregation has been called: one more article of a family
IngestEntityArticle == call = Idle /\ \E a \in EntityArticles(Room) : StoreArticle(a)
IngestPairArticle == call = Idle /\ \E a \in PairArticles(Room) : StoreArticle(a)
IngestComparedArticle == call = Idle /\ \E a \in ComparedArticles(Room) : StoreArticle(a)
IngestSentimentArticle == call = Idle /\ \E a \in SentimentArticles(Room) : StoreArticle(a)
IngestDatedArticle == call = Idle /\ \E a \in DatedArticles(Room) : StoreArticle(a)

IngestKeywordArticle == call = Idle /\ \E a \in KeywordArticles : StoreArticle(a)

IngestSeriesArticle == call = Idle /\ \E a \in SeriesArticles : StoreArticle(a)

IngestLocationArticle == call = Idle /\ \E a \in LocationArticles(Room) : StoreArticle(a)

IngestEndpointArticle == call = Idle /\ \E a \in EndpointArticles(Room) : StoreArticle(a)

IngestTopicArticle == call = Idle /\ \E a \in TopicArticles : StoreArticle(a)

IngestWordArticle == call = Idle /\ \E a \in WordArticles : StoreArticle(a)

IngestScoredArticle == call = Idle /\ \E a \in ScoredArticles : StoreArticle(a)

IngestRepeatArticle == call = Idle /\ \E a \in RepeatArticles(Room) : StoreArticle(a)

IngestTrendArticle == call = Idle /\ \E a \in TrendArticles : StoreArticle(a)

IngestMonthlyArticle == \E a \in MonthlyArticles : StoreLater(a)

\* the corpus before the first request
IngestBeforeRequests == threads = <<>> /\ IngestMonthlyArticle

\* top entities, without dates, over a corpus of articles with varied mentions
Next ==
    \/ IngestEntityArticle
    \/ \E t \in EntityTypeArgs, l \in LimitArgs : GetTopEntities(t, l, <<>>, <<>>)

Spec == Init /\ [][Next]_vars

\* entity co-occurrence over a corpus of articles with varied mentions
NextPairs ==
    \/ IngestPairArticle
    \/ \E t \in EntityTypeArgs, m \in MinCountArgs, l \in LimitArgs :
          GetEntityCooccurrence(t, m, l)

SpecPairs == Init /\ [][NextPairs]_vars

\* the comparison of requested entities
NextCompare ==
    \/ IngestComparedArticle
    \/ \E n \in NameArgs : CompareEntities(n, <<>>, <<>>)

SpecCompare == Init /\ [][NextCompare]_vars

\* sentiment by entity over a corpus of articles with varied sentiment
NextSentiment ==
    \/ IngestSentimentArticle
    \/ \E t \in EntityTypeArgs, l \in LimitArgs : GetSentimentByEntity(t, l)

SpecSentiment == Init /\ [][NextSentiment]_vars

\* top entities with a date range over a corpus of articles with varied dates
NextDates ==
    \/ IngestDatedArticle
    \/ \E t \in EntityTypeArgs, l \in LimitArgs, s \in DateArgs, e \in DateArgs :
          GetTopEntities(t, l, s, e)

SpecDates == Init /\ [][NextDates]_vars

\* keyword frequency by day and by month over articles with varied text
NextKeyword ==
    \/ IngestKeywordArticle
    \/ \E k \in KeywordArgs, s \in DateArgs, e \in DateArgs, g \in GranularityArgs \ {"week"} :
          GetKeywordFrequencyOverTime(k, s, e, g)

SpecKeyword == Init /\ [][NextKeyword]_vars

\* the time series, at each granularity, over articles with varied dates
NextSeries ==
    \/ IngestSeriesArticle
    \/ \E g \in GranularityArgs : GetKeywordFrequencyOverTime(<<"o","i","l">>, <<>>, <<>>, g)
    \/ \E g \in GranularityArgs : GetEntityMentionsOverTime(<<"P","a","k","i","s","t","a","n","i">>, <<>>, <<>>, g)

SpecSeries == Init /\ [][NextSeries]_vars

\* location analytics over articles that mention places
NextLocations ==
    \/ IngestLocationArticle
    \/ \E s \in DateArgs, e \in DateArgs : GetLocationAnalytics(s, e)

SpecLocations == Init /\ [][NextLocations]_vars

\* the analytics endpoints, for any limit and any state of the source
NextEndpoints ==
    \/ IngestEndpointArticle
    \/ \E s \in SourceStates, l \in EndpointLimitArgs : TopEntitiesEndpoint(s, NoType, l)
    \/ \E s \in SourceStates, l \in EndpointLimitArgs : SentimentByEntityEndpoint(s, NoType, l)
    \/ \E s \in SourceStates, l \in EndpointLimitArgs :
          EntityCooccurrenceEndpoint(s, NoType, 1, l)

SpecEndpoints == Init /\ [][NextEndpoints]_vars

\* the topic distribution over articles with varied topic labels
NextTopics ==
    \/ IngestTopicArticle
    \/ GetTopicDistribution

SpecTopics == Init /\ [][NextTopics]_vars

\* the topic distribution of a collection of many topics
InitShares ==
    /\ articles \in TopicCorpora
    /\ call = Idle
    /\ result = <<>>
    /\ Started

NextShares == GetTopicDistribution

SpecShares == InitShares /\ [][NextShares]_vars

\* keyword extraction over a corpus of articles with varied text
NextWords ==
    \/ IngestWordArticle
    \/ \E l \in KeywordLimitArgs : GetTopKeywords(l)

SpecWords == Init /\ [][NextWords]_vars

\* the sentiment counters of the entity series
NextScores ==
    \/ IngestScoredArticle
    \/ \E g \in GranularityArgs : GetEntityMentionsOverTime(<<"P","a","k","i","s","t","a","n","i">>, <<>>, <<>>, g)

SpecScores == Init /\ [][NextScores]_vars

\* an aggregation called twice over an unchanged corpus
NextRepeat ==
    \/ IngestRepeatArticle
    \/ \E l \in LimitArgs : GetTopEntities(NoType, l, <<>>, <<>>)
    \/ \E l \in LimitArgs : GetSentimentByEntity(NoType, l)
    \/ GetTopEntitiesAgain
    \/ GetSentimentByEntityAgain

SpecRepeat == Init /\ [][NextRepeat]_vars

\* the endpoints that take a list of keywords or of entities
NextTrend ==
    \/ IngestTrendArticle
    \/ \E s \in {"available", "no_client"}, r \in TrendRequests : KeywordTrendEndpoint(s, r)
    \/ \E e \in EntitiesArgs : CompareEntitiesEndpoint("available", e, <<>>, <<>>)

SpecTrend == Init /\ [][NextTrend]_vars

\* the cached monthly counts, while the corpus grows and time passes
NextCache ==
    \/ IngestMonthlyArticle
    \/ Tick
    \/ \E s \in {"available", "unreachable"} : GetAnalyticsArticlesOverTime(s)

SpecCache == Init /\ [][NextCache]_vars

\* a process that has served no request: no FirestoreDB object, no Firebase
\* app; the clock reads seconds since 1970, more than the time to live
InitThreads ==
    /\ articles = <<>>
    /\ call = Idle
    /\ result = <<>>
    /\ clock = MaxTicks * TickSeconds
    /\ instances = <<>>
    /\ _db_instance = 0
    /\ _apps = FALSE
    /\ threads = <<>>
    /\ pipeline = NoPipeline
    /\ PIPELINE_AVAILABLE = FALSE

\* requests for the monthly counts served by the threads of the pool
NextThreads ==
    \/ IngestBeforeRequests
    \/ StartRequest
    \/ \E t \in DOMAIN threads : GetDbTest(t)
    \/ \E t \in DOMAIN threads : NewFirestoreDB(t)
    \/ \E t \in DOMAIN threads : InitializeApp(t)
    \/ \E t \in DOMAIN threads : AssignDbInstance(t)
    \/ \E t \in DOMAIN threads : ReturnDbInstance(t)
    \/ \E t \in DOMAIN threads : GetCachedKey(t)
    \/ \E t \in DOMAIN threads : GetCachedTtl(t)
    \/ \E t \in DOMAIN threads : GetCachedValue(t)
    \/ \E t \in DOMAIN threads : ScanArticles(t)
    \/ \E t \in DOMAIN threads : SetCachedValue(t)
    \/ \E t \in DOMAIN threads : SetCachedTimestamp(t)

SpecThreads == InitThreads /\ [][NextThreads]_vars

\* the lazy pipeline, called by its endpoints one after the other
NextPipeline ==
    \E caller \in PipelineCallers : \E constructs \in BOOLEAN : \E connects \in BOOLEAN :
        InitPipeline(caller, constructs, connects)

SpecPipeline == Init /\ [][NextPipeline]_vars

\* ---- the normalizer alone ----

\* the normalizer is about to be called on one surface form
InitNorm ==
    /\ articles = <<>>
    /\ \E t \in NormInputs :
         call = [op |-> "_normalize_entity_name", entity_text |-> t,
                 prior |-> <<>>, returned |-> FALSE]
    /\ result = <<>>
    /\ Started

\* _normalize_entity_name(entity_text) returns
Normalize ==
    /\ call.op = "_normalize_entity_name"
    /\ ~call.returned
    /\ call' = [call EXCEPT !.returned = TRUE]
    /\ result' = _normalize_entity_name(call.entity_text)
    /\ UNCHANGED <<articles, process>>

\* _normalize_entity_name called on the value it returned
Renormalize ==
    /\ call.op = "_normalize_entity_name"
    /\ call.returned
    /\ Len(call.prior) < MaxChain
    /\ call' = [call EXCEPT !.entity_text = result,
                            !.prior = Append(call.prior, call.entity_text)]
    /\ result' = _normalize_entity_name(result)
    /\ UNCHANGED <<articles, process>>

NextNorm == Normalize \/ Renormalize

SpecNorm == InitNorm /\ [][NextNorm]_vars

----------------------------------------------------------------------------
(* Properties of the normalizer, checked under SpecNorm *)

NormReturned == call.op = "_normalize_entity_name" /\ call.returned

InTable(text) == lower(text) \in normalization_keys

\* first letter of each word upper case, every other letter lower case
IsTitleCased(s) ==
    \A i \in 1..Len(s) :
        IsCased(s[i]) => (IsUpper(s[i]) <=> (i = 1 \/ s[i-1] = " "))

\* C2: for every key of the normalization table in every upper/lower-case
\* spelling, the normalizer returns the table's root for that key in title
\* case, whatever the suffix rules would have made of the text; Pakistanis
\* gives Pakistan, Americans gives America, Soviets gives Ussr.
C2_TableLookupWins ==
    (NormReturned /\ InTable(call.entity_text)) =>
        /\ lower(result) = normalization_map[lower(call.entity_text)]
        /\ IsTitleCased(result)
        /\ (lower(call.entity_text) = <<"p","a","k","i","s","t","a","n","i","s">>) => result = <<"P","a","k","i","s","t","a","n">>
        /\ (lower(call.entity_text) = <<"a","m","e","r","i","c","a","n","s">>) => result = <<"A","m","e","r","i","c","a">>
        /\ (lower(call.entity_text) = <<"s","o","v","i","e","t","s">>) => result = <<"U","s","s","r">>

\* a mixed-case spelling of a key whose suffix rule would give another answer
C2_Witness ==
    /\ NormReturned
    /\ call.entity_text = <<"a","M","E","R","i","c","a","n","S">>
    /\ result = <<"A","m","e","r","i","c","a">>

\* the suffix rules as the specification words them
SuffixRulesAsStated(text) ==
    LET l == lower(text) IN
    IF endswith(l, <<"a","n","s">>) /\ Len(l) > 5 THEN title(DropLast(text, 3))
    ELSE IF endswith(l, <<"e","s","e">>) /\ Len(l) > 6
    THEN LET rest == DropLast(l, 3) IN
         title(IF endswith(rest, <<"i","n">>) THEN DropLast(rest, 2) \o <<"a">> ELSE rest)
    ELSE IF endswith(l, <<"i","s">>) /\ Len(l) > 5 THEN title(DropLast(text, 2))
    ELSE text

\* the original statement of C3: outside the table the result is given by the
\* three suffix rules alone, and is the unchanged text otherwise
C3_SuffixRulesOriginal ==
    (NormReturned /\ ~InTable(call.entity_text)) =>
        result = SuffixRulesAsStated(call.entity_text)

\* C3 (amended): outside the table, a text ending in "ans" and longer than 5
\* loses the suffix and is title-cased only when the remainder is not itself a
\* key of the table, and is returned unchanged when the remainder is a key;
\* the "ese" rule (longer than 6, trailing "in" of the remainder replaced by
\* "a") and the "is" rule (longer than 5) apply only to texts that do not end
\* in "ans"; every other text is returned with its original casing.
C3_SuffixRulesGuarded ==
    (NormReturned /\ ~InTable(call.entity_text)) =>
        LET l == lower(call.entity_text) IN
        IF endswith(l, <<"a","n","s">>) /\ Len(l) > 5 /\ InTable(DropLast(l, 3))
        THEN result = call.entity_text
        ELSE result = SuffixRulesAsStated(call.entity_text)

\* the guarded case: "Egyptans" is not a key, "egypt" is, the text comes back as is
C3_Witness ==
    /\ NormReturned
    /\ call.entity_text = <<"E","g","y","p","t","a","n","s">>
    /\ result = <<"E","g","y","p","t","a","n","s">>

\* the canonical forms the table can produce
CanonicalForms == {title(normalization_map[k]) : k \in normalization_keys}

\* C4: the normalizer maps every canonical form of the table to itself, and
\* applying it to what it returned for a table variant returns the same value.
\* (That equal inputs give equal outputs holds by construction: the operator
\* reads no variable.)
C4_CanonicalFixpoint ==
    /\ (NormReturned /\ call.entity_text \in CanonicalForms) => result = call.entity_text
    /\ (NormReturned /\ call.prior # <<>> /\ InTable(call.prior[1])) => result = call.entity_text

\* "Soviets" was normalized to "Ussr", and "Ussr" was normalized again
C4_Witness ==
    /\ NormReturned
    /\ call.prior = <<<<"S","o","v","i","e","t","s">>>>
    /\ call.entity_text = <<"U","s","s","r">>
    /\ result = <<"U","s","s","r">>

----------------------------------------------------------------------------
(* Properties of the entity aggregations *)

\* the entity filter as the specification states it
Rejected(m) ==
    \/ m.type \in {"DATE", "TIME", "CARDINAL", "ORDINAL", "QUANTITY", "MONEY", "PERCENT"}
    \/ Len(m.text) < 3
    \/ (m.text # <<>> /\ \A i \in DOMAIN m.text : m.text[i] \in DigitChars)

\* the mentions of the corpus: <<article, position>>
MentionSites == UNION {{<<a, i>> : i \in DOMAIN articles[a].entities} : a \in DOMAIN articles}
Mention(site) == articles[site[1]].entities[site[2]]
Canonical(site) == _normalize_entity_name(Mention(site).text)

\* the mentions that pass the filter and the type filter of the call
Passing(entity_type) ==
    {s \in MentionSites : ~Rejected(Mention(s))
                          /\ (entity_type = NoType \/ Mention(s).type = entity_type)}

\* the passing mentions of the entity (text, type)
SitesOf(text, type, entity_type) ==
    {s \in Passing(entity_type) : Canonical(s) = text /\ Mention(s).type = type}

\* the articles with a passing mention of the normalized text
ArticlesWith(text, entity_type) ==
    {s[1] : s \in {x \in Passing(entity_type) : Canonical(x) = text}}

NonIncreasing(counts) == \A i, j \in DOMAIN counts : i < j => counts[i] >= counts[j]

\* C1: no count reported by an entity aggregation includes a mention that the
\* entity filter rejects (noise type, text shorter than 3, digits only): every
\* reported count is bounded by the number of mentions that pass the filter.
C1_CountsExcludeFiltered ==
    /\ call.op = "get_top_entities" =>
         \A i \in DOMAIN result :
            result[i].count <= Cardinality(SitesOf(result[i].text, result[i].type, NoType))
    /\ call.op = "get_sentiment_by_entity" =>
         \A i \in DOMAIN result :
            result[i].article_count <=
               Cardinality({s \in Passing(NoType) : Canonical(s) = result[i].entity_text})
    /\ call.op = "get_entity_cooccurrence" =>
         \A i \in DOMAIN result :
            result[i].cooccurrence_count <=
               Cardinality({p \in Passing(NoType) \X Passing(NoType) :
                              /\ p[1][1] = p[2][1]
                              /\ Canonical(p[1]) = result[i].entity1
                              /\ Canonical(p[2]) = result[i].entity2})
    /\ call.op = "compare_entities" =>
         \A i \in DOMAIN result :
            result[i].total_mentions <=
               Cardinality({s \in Passing(NoType) :
                              lower(Canonical(s)) = lower(_normalize_entity_name(result[i].name))})

TopNoFilter ==
    /\ call.op = "get_top_entities"
    /\ call.entity_type = NoType
    /\ call.start_date = <<>>
    /\ call.end_date = <<>>

EntityKeys(entity_type) == {<<Canonical(s), Mention(s).type>> : s \in Passing(entity_type)}

\* C5: get_top_entities with no filters reports each (normalized text, type)
\* pair once, with the number of passing mentions of that pair in the whole
\* corpus (repeated mentions in one article counted separately), in
\* non-increasing order of count, keeping the first `limit` pairs of that order.
C5_TopEntitiesCounts ==
    TopNoFilter =>
        LET passing == Passing(NoType)
            keyOf == [s \in passing |-> <<Canonical(s), Mention(s).type>>]
            keys == {keyOf[s] : s \in passing}
            mentionsOf == [k \in keys |-> Cardinality({s \in passing : keyOf[s] = k})]
            reported == {<<result[i].text, result[i].type>> : i \in DOMAIN result}
        IN
        /\ \A i \in DOMAIN result :
              /\ <<result[i].text, result[i].type>> \in keys
              /\ result[i].count = mentionsOf[<<result[i].text, result[i].type>>]
        /\ \A i, j \in DOMAIN result :
              (result[i].text = result[j].text /\ result[i].type = result[j].type) => i = j
        /\ NonIncreasing([i \in DOMAIN result |-> result[i].count])
        /\ Len(result) <= call.limit
        /\ Len(result) = Min2(call.limit, Cardinality(keys))
        /\ \A k \in keys \ reported :
              \A i \in DOMAIN result : result[i].count >= mentionsOf[k]

\* one article mentions Pakistan twice and India once: Pakistan 2, India 1
C5_Witness ==
    /\ TopNoFilter
    /\ Len(articles) = 1
    /\ Len(result) = 2
    /\ result[1] = [text |-> <<"P","a","k","i","s","t","a","n">>, type |-> "GPE", count |-> 2]
    /\ result[2] = [text |-> <<"I","n","d","i","a">>, type |-> "GPE", count |-> 1]

\* a publication date coerced to YYYY-MM-DD: the day of a native datetime, the
\* first ten characters of a string
CoercedDate(d) ==
    IF d.kind = "datetime" THEN strftime(d) ELSE SubSeq(d.value, 1, Min2(10, Len(d.value)))

WithinBounds(doc, start_date, end_date) ==
    /\ doc.publication_date.kind # "none"
    /\ start_date # <<>> => ~StrLess(CoercedDate(doc.publication_date), start_date)
    /\ end_date # <<>> => ~StrLess(end_date, CoercedDate(doc.publication_date))

\* C6: with start_date and/or end_date, get_top_entities counts the mentions of
\* exactly the articles whose publication date, coerced to YYYY-MM-DD, lies in
\* the inclusive range, whatever the stored representation of the date
\* (native datetime, date-only string, ISO-8601 string with a time part).
\* Stated for the corpora in which every article has a publication date.
AllDated == \A a \in DOMAIN articles : articles[a].publication_date.kind # "none"

C6_DateRangeInclusive ==
    (/\ call.op = "get_top_entities"
     /\ call.start_date # <<>> \/ call.end_date # <<>>
     /\ AllDated) =>
        LET inRange(s) == WithinBounds(articles[s[1]], call.start_date, call.end_date)
            sites(text, type) == {s \in SitesOf(text, type, call.entity_type) : inRange(s)}
            keys == {<<Canonical(s), Mention(s).type>> :
                        s \in {x \in Passing(call.entity_type) : inRange(x)}}
        IN  /\ \A i \in DOMAIN result :
                  result[i].count = Cardinality(sites(result[i].text, result[i].type))
            /\ Len(result) = Min2(call.limit, Cardinality(keys))

RECURSIVE SumScores(_)
SumScores(as) ==
    IF as = {} THEN 0
    ELSE LET a == CHOOSE x \in as : TRUE
         IN  articles[a].sentiment_score + SumScores(as \ {a})

\* C7: in get_sentiment_by_entity the counters of an entity grow once per
\* article that contains it: article_count is the number of distinct articles
\* with the entity, the three label counters split those articles by label,
\* and avg_sentiment is the mean score of those articles.
C7_OncePerArticle ==
    call.op = "get_sentiment_by_entity" =>
        \A i \in DOMAIN result :
            LET as == ArticlesWith(result[i].entity_text, call.entity_type)
                with(label) == {a \in as : articles[a].sentiment_label = label}
            IN  /\ result[i].article_count = Cardinality(as)
                /\ result[i].positive_count = Cardinality(with("positive"))
                /\ result[i].neutral_count = Cardinality(with("neutral"))
                /\ result[i].negative_count = Cardinality(with("negative"))
                /\ result[i].avg_sentiment[1] * Cardinality(as)
                      = SumScores(as) * result[i].avg_sentiment[2]

\* C8: get_sentiment_by_entity returns no entity found in fewer than 2
\* articles, returns every entity found in at least 2 articles when the limit
\* does not truncate, and orders the records by non-increasing article count.
C8_NoiseThreshold ==
    call.op = "get_sentiment_by_entity" =>
        LET texts == {Canonical(s) : s \in Passing(call.entity_type)}
            frequent == {x \in texts : Cardinality(ArticlesWith(x, call.entity_type)) >= 2}
        IN  /\ \A i \in DOMAIN result : result[i].entity_text \in frequent
            /\ Len(result) < call.limit =>
                  \A x \in frequent : \E i \in DOMAIN result : result[i].entity_text = x
            /\ NonIncreasing([i \in DOMAIN result |->
                  Cardinality(ArticlesWith(result[i].entity_text, call.entity_type))])

\* C9: the count of a pair in get_entity_cooccurrence is the number of articles
\* that contain both entities after filtering and normalization; one article
\* adds at most 1 to a pair.
C9_PairCountsArticles ==
    call.op = "get_entity_cooccurrence" =>
        \A i \in DOMAIN result :
            result[i].cooccurrence_count =
               Cardinality({a \in DOMAIN articles :
                  /\ \E s \in SitesOf(result[i].entity1, result[i].type1, call.entity_type) : s[1] = a
                  /\ \E s \in SitesOf(result[i].entity2, result[i].type2, call.entity_type) : s[1] = a})

----------------------------------------------------------------------------
(* Properties of the time series *)

\* the keyword occurs, case-insensitively, in the headline followed by the content
KeywordInArticle(doc, keyword) ==
    Contains(lower(doc.headline \o <<" ">> \o doc.content), lower(keyword))

\* the in-range articles that hold the keyword and fall in the bucket
KeywordArticlesOf(bucket) ==
    {i \in DOMAIN articles :
        /\ DatedInRange(articles[i], call.start_date, call.end_date)
        /\ KeywordInArticle(articles[i], call.keyword)
        /\ time_key(_normalize_date(articles[i].publication_date), call.granularity).key = bucket}

\* C11: get_keyword_frequency_over_time (day or month buckets) counts an
\* in-range article exactly when the keyword occurs, case-insensitively and as
\* a substring, in its headline followed by its content: every such article
\* has a bucket, and the count of a bucket is the number of such articles.
C11_KeywordInHeadlineOrContent ==
    (call.op = "get_keyword_frequency_over_time" /\ call.granularity # "week") =>
        /\ \A i \in DOMAIN articles :
              (DatedInRange(articles[i], call.start_date, call.end_date)
                  /\ KeywordInArticle(articles[i], call.keyword)) =>
                 \E r \in DOMAIN result :
                    result[r].date = time_key(_normalize_date(articles[i].publication_date),
                                              call.granularity).key
        /\ \A r \in DOMAIN result :
              result[r].count = Cardinality(KeywordArticlesOf(result[r].date))

\* the call is a time series
SeriesCall == call.op \in {"get_keyword_frequency_over_time", "get_entity_mentions_over_time"}

\* the article is in range and matches the keyword or the entity of the call,
\* as the operation decides it
SeriesMatch(doc) ==
    /\ DatedInRange(doc, call.start_date, call.end_date)
    /\ IF call.op = "get_keyword_frequency_over_time"
       THEN Contains(SearchedText(doc), lower(call.keyword))
       ELSE \E i \in DOMAIN doc.entities :
               lower(_normalize_entity_name(doc.entities[i].text))
                   = lower(_normalize_entity_name(call.entity_name))

\* the processing of the record fails in the call: its date is not a calendar
\* date and the week is asked for, or its label is not a counter of the bucket
RecordFails(doc) ==
    /\ SeriesMatch(doc)
    /\ \/ call.granularity = "week"
             /\ ~fromisoformat(SliceTo(_normalize_date(doc.publication_date), 10)).ok
       \/ call.op = "get_entity_mentions_over_time"
             /\ doc.sentiment_label \notin {"positive", "neutral", "negative"}

\* "<ISO year>-W<ISO week, two digits>" of a publication date
IsoWeekKey(pub_date) ==
    LET iso == isocalendar(fromisoformat(SliceTo(pub_date, 10)))
    IN  DecimalStr(iso.year) \o <<"-","W">> \o Digits(iso.week, 2)

\* C12: with granularity week, a time series over a corpus in which no record
\* fails has one bucket "<ISO year>-W<ISO week>" for every ISO week that holds
\* a matching article, counting the matching articles of that ISO week, so
\* articles of different ISO weeks never share a bucket.
C12_IsoWeekBuckets ==
    (SeriesCall /\ call.granularity = "week"
        /\ \A i \in DOMAIN articles : ~RecordFails(articles[i])) =>
        /\ \A i \in DOMAIN articles :
              SeriesMatch(articles[i]) =>
                 \E r \in DOMAIN result :
                    result[r].date = IsoWeekKey(_normalize_date(articles[i].publication_date))
        /\ \A r \in DOMAIN result :
              result[r].count =
                 Cardinality({i \in DOMAIN articles :
                    /\ SeriesMatch(articles[i])
                    /\ IsoWeekKey(_normalize_date(articles[i].publication_date)) = result[r].date})

\* the corpus without the records whose processing fails in the call
WithoutFailing == SelectSeq(articles, LAMBDA d : ~RecordFails(d))

\* C14: a record whose processing fails is skipped and the scan continues: the
\* result of a time series equals its result over the corpus without the
\* failing records.
C14_FailingRecordSkipped ==
    /\ call.op = "get_keyword_frequency_over_time" =>
          result = get_keyword_frequency_over_time(WithoutFailing, call.keyword,
                       call.start_date, call.end_date, call.granularity)
    /\ call.op = "get_entity_mentions_over_time" =>
          result = get_entity_mentions_over_time(WithoutFailing, call.entity_name,
                       call.start_date, call.end_date, call.granularity)

----------------------------------------------------------------------------
(* Properties of the location analytics *)

\* the GPE mentions of the in-range articles: <<article, position>>
GpeSites ==
    {s \in MentionSites :
        /\ DatedInRange(articles[s[1]], call.start_date, call.end_date)
        /\ Mention(s).type = "GPE"}

\* C13: get_location_analytics reports every normalized location that an
\* in-range article mentions with an entity of type GPE, with the number of
\* such mentions as total_mentions; at most 20 locations, in non-increasing
\* order of total_mentions, and none that no GPE entity names.
C13_GpeLocationsReported ==
    call.op = "get_location_analytics" =>
        /\ Len(result) <= 20
        /\ NonIncreasing([i \in DOMAIN result |-> result[i].total_mentions])
        /\ \A i \in DOMAIN result :
              result[i].total_mentions =
                 Cardinality({s \in GpeSites : title(Canonical(s)) = result[i].location})
        /\ Len(result) = Min2(20, Cardinality({title(Canonical(s)) : s \in GpeSites}))

----------------------------------------------------------------------------
(* Properties of the analytics endpoints *)

EndpointCall == call.op \in {"top_entities", "sentiment_by_entity", "entity_cooccurrence"}

\* C15: when the source cannot be reached or iterated during the aggregation
\* of an endpoint, the caller receives a failure, never a successful response.
C15_SourceFailureReported ==
    (EndpointCall /\ call.source # "available") => result.status # 200

\* the whole ranking of the endpoint's aggregation: what it returns for a
\* limit that keeps every record
FullRanking ==
    IF call.op = "top_entities"
    THEN get_top_entities(articles, call.entity_type, MaxMentions, <<>>, <<>>)
    ELSE IF call.op = "sentiment_by_entity"
    THEN get_sentiment_by_entity(articles, call.entity_type, MaxMentions)
    ELSE get_entity_cooccurrence(articles, call.entity_type, call.min_count,
                                 MaxMentions * MaxMentions)

\* the limit clamped between 1 and the maximum of the endpoint
EffectiveLimit == Max2(1, Min2(call.limit, call.cap))

\* C16: for every caller-supplied limit, an endpoint whose source is available
\* returns the first min(effective limit, available records) records of the
\* ranking, the effective limit lying between 1 and the endpoint's maximum.
C16_LimitClamped ==
    (EndpointCall /\ call.source = "available") =>
        /\ Len(result.body) = Min2(EffectiveLimit, Len(FullRanking))
        /\ result.body = SubSeq(FullRanking, 1, Len(result.body))

----------------------------------------------------------------------------
(* Properties of the comparison of entities *)

\* the mentions, in the articles inside the date range, whose normalized text
\* is the normalized form of the name (compared in lower case)
MentionsOfName(name) ==
    {s \in MentionSites :
        /\ DatedInRange(articles[s[1]], call.start_date, call.end_date)
        /\ lower(Canonical(s)) = lower(_normalize_entity_name(name))}

\* C17: compare_entities reports for each requested name, as total_mentions,
\* the number of mentions in the date range whose normalized text equals the
\* normalized form of the name, also when two requested names have the same
\* normalized form.
C17_MentionsPerRequestedName ==
    call.op = "compare_entities" =>
        /\ \A i \in DOMAIN call.entity_names :
              \E r \in DOMAIN result : result[r].name = call.entity_names[i]
        /\ \A r \in DOMAIN result :
              result[r].total_mentions = Cardinality(MentionsOfName(result[r].name))

\* C18: top_cooccurrences of a requested entity has at most 5 entries, each a
\* requested entity other than that entity.
C18_NoSelfCooccurrence ==
    call.op = "compare_entities" =>
        \A r \in DOMAIN result :
           /\ Len(result[r].top_cooccurrences) <= 5
           /\ \A k \in DOMAIN result[r].top_cooccurrences :
                 /\ result[r].top_cooccurrences[k].key # result[r].name
                 /\ \E i \in DOMAIN call.entity_names :
                       call.entity_names[i] = result[r].top_cooccurrences[k].key

----------------------------------------------------------------------------
(* Properties of the topic distribution *)

\* the article has no topic: the label is absent, None or ''
Untopiced(doc) ==
    "topic_label" \notin DOMAIN doc \/ doc.topic_label \in {<<>>, NoneValue}

\* C19: get_topic_distribution groups every article whose topic_label is
\* absent, None or '' under the single topic "Uncategorized"; no bucket has
\* an empty or null topic, and the counts sum to the number of articles.
C19_UncategorizedDefault ==
    call.op = "get_topic_distribution" =>
        /\ \A r \in DOMAIN result : result[r].topic \notin {<<>>, NoneValue}
        /\ SumSeq([r \in DOMAIN result |-> result[r].count]) = Len(articles)
        /\ \A r \in DOMAIN result :
              result[r].topic = <<"U","n","c","a","t","e","g","o","r","i","z","e","d">> =>
                 result[r].count = Cardinality({i \in DOMAIN articles : Untopiced(articles[i])})
        /\ (\E i \in DOMAIN articles : Untopiced(articles[i])) =>
              \E r \in DOMAIN result : result[r].topic = <<"U","n","c","a","t","e","g","o","r","i","z","e","d">>

\* the sum of the returned percentages, in hundredths of a percent
PercentageSum == SumSeq([r \in DOMAIN result |-> result[r].percentage])

\* the sum is within 0.1 of 100.0
SumNear100 == PercentageSum >= 10000 - 10 /\ PercentageSum <= 10000 + 10

\* C20 as stated: for every non-empty corpus the percentages sum to a value
\* within 0.1 of 100.0, whatever the number of topics.
C20_PercentagesSumTo100 ==
    (call.op = "get_topic_distribution" /\ Len(articles) > 0) => SumNear100

\* C20 as amended: for every non-empty corpus of at most 20 topics the
\* percentages sum to a value within 0.1 of 100.0 (each percentage is off by
\* at most 0.005, so the sum is off by at most 0.005 per topic).
C20_SumWithinRounding ==
    (call.op = "get_topic_distribution" /\ Len(articles) > 0) =>
        /\ 2 * PercentageSum >= 2 * 10000 - Len(result)
        /\ 2 * PercentageSum <= 2 * 10000 + Len(result)
        /\ Len(result) <= 20 => SumNear100

\* seven topics of one article each: 7 * 14.29 = 100.03
C20_Witness ==
    /\ call.op = "get_topic_distribution"
    /\ Len(articles) = 7
    /\ Len(result) = 7
    /\ PercentageSum = 10003

----------------------------------------------------------------------------
(* Properties of the keyword extraction *)

\* the text of an article that the extraction reads, lowercased
WordText(a) == lower(a.content \o <<" ">> \o a.headline)

\* the whitespace-separated pieces of a text, by first and last position
Pieces(text) ==
    LET first == {i \in 1..Len(text) :
                     text[i] \notin Whitespace /\ (i = 1 \/ text[i - 1] \in Whitespace)}
        last == {j \in 1..Len(text) :
                     text[j] \notin Whitespace /\ (j = Len(text) \/ text[j + 1] \in Whitespace)}
    IN  {<<i, CHOOSE j \in last : j >= i /\ \A k \in last : k >= i => j <= k>> : i \in first}

\* the tokens of the corpus, by article and position of their piece
TokenSites ==
    UNION {{[article |-> a, piece |-> p,
             token |-> strip(SubSeq(WordText(articles[a]), p[1], p[2]), Punctuation)] :
               p \in Pieces(WordText(articles[a]))} :
              a \in DOMAIN articles}

CorpusTokens == {s.token : s \in TokenSites}


IsDigitChar(c) == c \in DigitChars

\* a token made of a run of one class of characters followed by a run of another
RunThenRun(token, First(_), Second(_)) ==
    /\ token # <<>>
    /\ First(token[1])
    /\ Second(token[Len(token)])
    /\ \A i \in 1..Len(token) : First(token[i]) \/ Second(token[i])
    /\ \A i, j \in 1..Len(token) : (i < j /\ Second(token[i])) => Second(token[j])

StartsLikeDate(token) ==
    \E d1 \in 1..2, d2 \in 1..2 :
        /\ Len(token) >= d1 + 1 + d2
        /\ \A i \in (1..d1) \cup ((d1 + 2)..(d1 + 1 + d2)) : IsDigitChar(token[i])
        /\ token[d1 + 1] \in {"-", "/"}

Counted(token) ==
    /\ Len(token) > 3
    /\ token \notin stop_words
    /\ \E i \in 1..Len(token) : ~IsDigitChar(token[i])
    /\ ~RunThenRun(token, IsDigitChar, IsLower)
    /\ ~RunThenRun(token, IsLower, IsDigitChar)
    /\ ~StartsLikeDate(token)
    /\ \E i \in 1..Len(token) : IsLower(token[i])

\* C21: get_top_keywords reports only tokens that are longer than 3
\* characters, not stop words, not numeric, not digits-then-letters, not
\* letters-then-digits, not starting like a date and containing a letter;
\* each with its number of occurrences over the corpus, in non-increasing
\* order of frequency, and all of them when the limit allows
C21_KeywordsCounted ==
    call.op = "get_top_keywords" =>
        LET sites == TokenSites
            kept == {t \in {s.token : s \in sites} : Counted(t)}
        IN  /\ \A i \in DOMAIN result :
                /\ result[i].keyword \in kept
                /\ result[i].frequency =
                       Cardinality({s \in sites : s.token = result[i].keyword})
            /\ \A i, j \in DOMAIN result :
                i < j => /\ result[i].frequency >= result[j].frequency
                         /\ result[i].keyword # result[j].keyword
            /\ call.limit >= 0 => Len(result) = Min2(call.limit, Cardinality(kept))

C21_Witness ==
    /\ call.op = "get_top_keywords"
    /\ {<<"1","9","9","0">>, <<"1","1","/","0","3">>, <<"t","h","e">>, <<"1","9","9","0","s">>, <<"m","a","r","c","h","1","1">>} \subseteq CorpusTokens
    /\ \E i \in DOMAIN result : result[i] = [keyword |-> <<"t","r","a","d","e">>, frequency |-> 1]
    /\ \E i \in DOMAIN result : result[i].frequency > 1

----------------------------------------------------------------------------
(* Properties of the buckets of the time series *)

\* the article is in range and holds the keyword, in its headline or its
\* content, or mentions the entity of the call
InSeries(doc) ==
    /\ DatedInRange(doc, call.start_date, call.end_date)
    /\ IF call.op = "get_keyword_frequency_over_time"
       THEN KeywordInArticle(doc, call.keyword)
       ELSE \E i \in DOMAIN doc.entities :
               lower(_normalize_entity_name(doc.entities[i].text))
                   = lower(_normalize_entity_name(call.entity_name))

\* the publication date has a bucket at the granularity of the call: a week
\* is the week of a calendar date, a day or a month is a prefix of the date
HasBucket(doc) ==
    call.granularity = "week" =>
        fromisoformat(SliceTo(_normalize_date(doc.publication_date), 10)).ok

\* the bucket of a publication date: its day, its ISO week or its month
BucketOf(pub_date, granularity) ==
    IF granularity = "day" THEN SliceTo(pub_date, 10)
    ELSE IF granularity = "week" THEN IsoWeekKey(pub_date)
    ELSE SliceTo(pub_date, 7)

\* C22: a time series has exactly one record for every bucket that holds a
\* matching article of the range, in strictly ascending order of bucket key,
\* and the count of a bucket is the number of those articles, each counted
\* once whatever the number of its mentions.
C22_OneRecordPerBucket ==
    SeriesCall =>
        LET matching == {i \in DOMAIN articles : InSeries(articles[i]) /\ HasBucket(articles[i])}
            bucket(i) == BucketOf(_normalize_date(articles[i].publication_date), call.granularity)
        IN  /\ {result[r].date : r \in DOMAIN result} = {bucket(i) : i \in matching}
            /\ \A r, s \in DOMAIN result : r < s => StrLess(result[r].date, result[s].date)
            /\ \A r \in DOMAIN result :
                  result[r].count = Cardinality({i \in matching : bucket(i) = result[r].date})

\* C23: every record of get_entity_mentions_over_time has a count of at least
\* one, made up of its positive, neutral and negative counts, and a
\* sentiment_score equal to (positive - negative) / count, between -1 and 1.
C23_SentimentCountsAddUp ==
    call.op = "get_entity_mentions_over_time" =>
        \A r \in DOMAIN result :
            LET rec == result[r]
                score == rec.sentiment_score
            IN  /\ rec.count >= 1
                /\ rec.positive + rec.neutral + rec.negative = rec.count
                /\ score[2] > 0
                /\ score[1] * rec.count = (rec.positive - rec.negative) * score[2]
                /\ -score[2] <= score[1] /\ score[1] <= score[2]

C23_Witness ==
    /\ call.op = "get_entity_mentions_over_time"
    /\ \E r \in DOMAIN result :
          /\ result[r].count = 2
          /\ result[r].negative = 1
          /\ result[r].neutral + result[r].positive = 1
    /\ \E a \in DOMAIN articles : Len(articles[a].entities) = 2

----------------------------------------------------------------------------
(* Properties of repeated aggregations *)

\* C24: an aggregation called twice over an unchanged corpus returns the same
\* output, whatever the order in which the source yields the articles on each
\* call.
C24_SameOutputOnEveryRun ==
    "previous" \in DOMAIN call => result = call.previous

----------------------------------------------------------------------------
(* Properties of the endpoints that take a list *)

\* the request has no keywords, keywords that are not a list, or no start or
\* end date
Incomplete(request) ==
    \/ request.keywords.kind \in {"absent", "none", "str"}
    \/ request.keywords.kind = "list" /\ Len(request.keywords.value) = 0
    \/ request.start_date = <<>>
    \/ request.end_date = <<>>

\* C25: keyword_trend answers a request without a non-empty list of keywords,
\* or without a start or an end date, with HTTP 400, without having streamed
\* the collection and without any part of a result.
C25_RejectedBeforeScan ==
    (call.op = "keyword_trend" /\ Incomplete(call.request)) =>
        /\ result.status = 400
        /\ call.streamed = 0
        /\ result.body = <<>>

C25_Witness ==
    /\ call.op = "keyword_trend"
    /\ call.source = "available"
    /\ call.request.keywords.kind = "list" /\ Len(call.request.keywords.value) = 2
    /\ call.request.start_date # <<>> /\ call.request.end_date = <<>>
    /\ \E a \in DOMAIN articles : KeywordFound(articles[a], call.request.keywords.value[1])
                                  /\ TrendDate(articles[a]).dated
    /\ result.status = 400

\* the first five elements of a list
FirstFive(list) == SubSeq(list, 1, Min2(5, Len(list)))

\* the request can be served: it is complete, its dates are calendar dates,
\* the source yields every article and every stored date can be read
Servable ==
    /\ call.source = "available"
    /\ ~Incomplete(call.request)
    /\ fromisoformat(call.request.start_date).ok
    /\ fromisoformat(call.request.end_date).ok
    /\ \A a \in DOMAIN articles : TrendDate(articles[a]).dated => TrendDate(articles[a]).ok

\* C26: a list of more than five keywords or entities is cut to its first
\* five and aggregated: keyword_trend returns the trend of each of the first
\* five keywords, compare_entities the comparison of the first five entities.
C26_ListsTruncated ==
    /\ (call.op = "keyword_trend" /\ Servable /\ Len(call.request.keywords.value) > 5) =>
          LET taken == FirstFive(call.request.keywords.value)
              start == 24 * toordinal(fromisoformat(call.request.start_date))
              end == 24 * toordinal(fromisoformat(call.request.end_date))
          IN  /\ result.status = 200
              /\ [i \in DOMAIN result.body |-> result.body[i].keyword] = taken
              /\ \A i \in DOMAIN result.body :
                    result.body[i].trend = TrendOfDicts(articles, taken[i], start, end).trend
    /\ (call.op = "api_compare_entities" /\ Len(entity_list(call.entities)) > 5) =>
          LET taken == FirstFive(entity_list(call.entities))
          IN  /\ result.status = 200
              /\ result.body.entities = taken
              /\ result.body.comparison
                     = compare_entities(articles, taken, call.start_date, call.end_date)

----------------------------------------------------------------------------
(* The cache of the monthly counts *)

\* the object every call of this process uses
TheDb == instances[_db_instance]

\* an entry for the monthly counts, stored less than the time to live ago
FreshEntry ==
    /\ ArticlesOverTimeKey \in DOMAIN TheDb._cache
    /\ clock - TheDb._cache_timestamp[ArticlesOverTimeKey] < 300

\* a step that is a call of get_analytics_articles_over_time
IsMonthlyCall ==
    /\ "seq" \in DOMAIN call'
    /\ call'.seq = CallCount + 1
    /\ call'.op = "get_analytics_articles_over_time"

\* every dated article has a date that can be read
Readable == \A i \in DOMAIN articles : MonthOf(articles[i]).dated => MonthOf(articles[i]).ok

\* series is the monthly counts of the corpus: ascending months, every month
\* of a dated article once, with the number of articles of that month
IsMonthlyCountsOf(series, docs) ==
    /\ \A i \in DOMAIN series : \A j \in DOMAIN series : i < j => StrLess(series[i].month, series[j].month)
    /\ \A i \in DOMAIN docs : MonthOf(docs[i]).dated =>
           \E k \in DOMAIN series : series[k].month = MonthOf(docs[i]).month
    /\ \A k \in DOMAIN series :
           /\ series[k].count > 0
           /\ series[k].count = Cardinality({i \in DOMAIN docs :
                  MonthOf(docs[i]).dated /\ MonthOf(docs[i]).month = series[k].month})

C27_Step ==
    IsMonthlyCall =>
        /\ ~call'.scanned => FreshEntry /\ result' = TheDb._cache[ArticlesOverTimeKey]
        /\ ~FreshEntry => call'.scanned
        /\ (~FreshEntry /\ call'.source = "available" /\ Readable) =>
               /\ IsMonthlyCountsOf(result', articles)
               /\ instances'[_db_instance]._cache[ArticlesOverTimeKey] = result'
               /\ instances'[_db_instance]._cache_timestamp[ArticlesOverTimeKey] = clock

\* C27: get_analytics_articles_over_time returns a cached result only when it
\* was stored less than 300 seconds before the read; with no entry or an
\* expired one it scans, and a scan that succeeds returns the monthly counts
\* of the corpus as it is now and stores them with the time of the call
C27_CachedOnlyWhileFresh == [][C27_Step]_vars

\* a call that found an entry at least 300 seconds old, scanned a corpus of
\* two months and stored the new counts
C27_Witness ==
    /\ call.op = "get_analytics_articles_over_time"
    /\ call.expired
    /\ clock >= 300
    /\ Len(result) = 2
    /\ TheDb._cache[ArticlesOverTimeKey] = result
    /\ TheDb._cache_timestamp[ArticlesOverTimeKey] = clock

\* the last call scanned while the source could not be reached
LastCallFailed ==
    /\ call.op = "get_analytics_articles_over_time"
    /\ call.scanned
    /\ call.source = "unreachable"

C30_Step ==
    IsMonthlyCall =>
        /\ (call'.scanned /\ (call'.source # "available" \/ ~Readable)) =>
               /\ result' = <<>>
               /\ instances' = instances
        /\ (LastCallFailed /\ ~FreshEntry /\ call'.source = "available" /\ Readable) =>
               /\ call'.scanned
               /\ IsMonthlyCountsOf(result', articles)
               /\ instances'[_db_instance]._cache[ArticlesOverTimeKey] = result'

\* C30: a call of get_analytics_articles_over_time whose scan fails returns
\* the empty list and leaves the cache and its timestamps as they were, and
\* the call after a failed one, with the source back and no fresh entry,
\* returns the monthly counts of the corpus
C30_FailedScanLeavesCache == [][C30_Step]_vars

\* a failed call that found an expired entry with counts and left it, and
\* its timestamp, in place
C30_Witness ==
    /\ LastCallFailed
    /\ call.expired
    /\ result = <<>>
    /\ clock >= 300
    /\ ArticlesOverTimeKey \in DOMAIN TheDb._cache
    /\ TheDb._cache[ArticlesOverTimeKey] # <<>>
    /\ TheDb._cache_timestamp[ArticlesOverTimeKey] = 0

----------------------------------------------------------------------------
(* Requests in several threads *)

\* what the endpoint articles_over_time returns to a request that is served
\* alone: the monthly counts, or the empty list when the scan raises
AloneResponse ==
    LET scan == MonthlyCounts(articles, "available") IN
    [status |-> 200, timeline |-> IF scan.ok THEN scan.result ELSE <<>>]

\* C28: every request served by a thread of the pool, whatever the other
\* threads do meanwhile, gets the response it would get if served alone
C28_CallsIndependent ==
    \A t \in DOMAIN threads :
        threads[t].pc = "done" => threads[t].response = AloneResponse

----------------------------------------------------------------------------
(* The lazy pipeline *)

\* C29: a pipeline returned by _init_pipeline has completed initialize() and
\* PIPELINE_AVAILABLE is true; in particular no call returns a pipeline whose
\* initialize() failed in an earlier call
C29_ReturnedPipelineInitialized ==
    (call.op = "_init_pipeline" /\ result.returned # NoPipeline) =>
        /\ result.returned = InitializedPipeline
        /\ PIPELINE_AVAILABLE

====
